---- MODULE Spec2Model ----
(***************************************************************************)
(* Model of the brand-audit backend: the discovery aggregator of           *)
(* app/data_sources/instagram.py (with its mock twin in mock_data.py),     *)
(* the audit pipeline orchestrator of app/services/audit_orchestrator.py   *)
(* and the scoring functions of app/services/scoring.py.                   *)
(*                                                                         *)
(* SpecDisc runs one call of InstagramDataSource.discover_influencers,     *)
(* one discovery method per step; SpecOrder does so with the methods       *)
(* listed in any order.  SpecTags runs _extract_hashtags on handles and    *)
(* bios built from pieces.  Spec runs one call of                          *)
(* AuditOrchestrator.run_audit against a storage session, one await per   *)
(* step, with collaborator and storage calls that may raise; SpecScoring   *)
(* enters it at the scoring step with any part of the profiles cached;     *)
(* SpecRuns interleaves the discovery step of two runs, each with its own  *)
(* session, on one database.  SpecScores calls one scoring function on     *)
(* one input and keeps its result; decimals are whole numbers of 1/Unit.   *)
(* SpecQueries runs discover_influencers with the hashtag method taken     *)
(* query by query, each query yielding items and then ending or raising.   *)
(* SpecAgain lets run_audit be called again for the same audit once a      *)
(* call has ended.  SpecWorker runs run_audit_background of                *)
(* app/workers/audit_worker.py around one call of run_audit.               *)
(***************************************************************************)
EXTENDS Integers, Sequences, FiniteSets, TLC

\* ------------------------------------------------------------------ bounds
\* Longest candidate list one discovery method returns.
MaxFound == 2
\* Longest candidate list one method returns when the methods are reordered.
MaxFoundReordered == 1
\* Longest candidate list one method returns during an audit run.
MaxFoundAudited == 1
\* Storage calls that may raise during one run.
MaxFaults == 2
\* Parts a handle given to the hashtag extraction is made of.
MaxHandleParts == 2
\* Pieces a bio given to the hashtag extraction is made of.
MaxBioPieces == 3
\* Posts of a scored profile.
MaxPosts == 3
\* Posts of a profile whose audience overlap is estimated.
MaxOverlapPosts == 1
\* Score bundles given to the health score.
MaxBundles == 2
\* Items the query of one hashtag yields.
MaxQueryItems == 1
\* Calls of run_audit for one audit id.
MaxInvocations == 2

\* ------------------------------------------------------- generic helpers
NULL == "null"

Range(s) == {s[i] : i \in 1..Len(s)}

SeqsUpTo(S, n) == UNION {[1..k -> S] : k \in 0..n}

Max2(a, b) == IF a >= b THEN a ELSE b

Min2(a, b) == IF a <= b THEN a ELSE b

RECURSIVE SelectSeqBy(_, _)
\* the elements of s, in order, that are not in the set drop
SelectSeqBy(s, drop) ==
    IF s = <<>> THEN <<>>
    ELSE IF Head(s) \in drop THEN SelectSeqBy(Tail(s), drop)
    ELSE <<Head(s)>> \o SelectSeqBy(Tail(s), drop)

\* ------------------------------------------------- hashtags: extraction
\* Texts are sequences of one-character strings.
LowerLetters ==
    {"a", "b", "c", "e", "f", "i", "k", "l", "n", "o", "s", "t", "w", "x", "y", "z"}

UpperLetters == {"A", "T"}

\* the characters \w matches
WordChars == LowerLetters \cup UpperLetters \cup {"_"}

\* the characters of the class [._]
HandleSeparators == {".", "_"}

\* A bio that is None.
NoBio == <<NULL>>

\* _MAX_HASHTAGS
MAX_HASHTAGS == 5

\* str.lower() on one character
LowerChar(c) ==
    CASE c = "A" -> "a"
      [] c = "T" -> "t"
      [] OTHER -> c

\* variant: the text is kept as written
LowerKeepingCase(text) == text

\* str.lower()
Lower(text) == [i \in 1..Len(text) |-> LowerChar(text[i])]

RECURSIVE SplitHandle(_, _)
\* re.split(r"[._]", handle); part is the part being read
SplitHandle(chars, part) ==
    IF chars = <<>> THEN <<part>>
    ELSE IF Head(chars) \in HandleSeparators
         THEN <<part>> \o SplitHandle(Tail(chars), <<>>)
         ELSE SplitHandle(Tail(chars), Append(part, Head(chars)))

RECURSIVE LongPartsLowered(_)
\* "p.lower() for p in parts if len(p) > 2"
LongPartsLowered(parts) ==
    IF parts = <<>> THEN <<>>
    ELSE IF Len(Head(parts)) > 2
         THEN <<Lower(Head(parts))>> \o LongPartsLowered(Tail(parts))
         ELSE LongPartsLowered(Tail(parts))

RECURSIVE WordRun(_)
\* what \w+ matches at the start of chars, empty if nothing
WordRun(chars) ==
    IF chars = <<>> \/ Head(chars) \notin WordChars THEN <<>>
    ELSE <<Head(chars)>> \o WordRun(Tail(chars))

RECURSIVE FindAllTags(_)
\* re.findall(r"#(\w+)", bio): the matches left to right, each search
\* starting after the previous match
FindAllTags(chars) ==
    IF chars = <<>> THEN <<>>
    ELSE LET word == WordRun(Tail(chars)) IN
         IF Head(chars) = "#" /\ word # <<>>
         THEN <<word>> \o FindAllTags(SubSeq(chars, Len(word) + 2, Len(chars)))
         ELSE FindAllTags(Tail(chars))

\* "if bio: ... hashtags.extend(h.lower() for h in found)"
BioHashtags(bio) ==
    IF bio = NoBio \/ bio = <<>> THEN <<>>
    ELSE LET found == FindAllTags(bio)
         IN  [i \in 1..Len(found) |-> Lower(found[i])]

RECURSIVE Unique(_, _)
\* "for h in hashtags: if h not in seen: seen.add(h); unique.append(h)"
Unique(hashtags, seen) ==
    IF hashtags = <<>> THEN <<>>
    ELSE IF Head(hashtags) \in seen THEN Unique(Tail(hashtags), seen)
    ELSE <<Head(hashtags)>> \o Unique(Tail(hashtags), seen \cup {Head(hashtags)})

\* variant: the whole list is returned
SliceAll(l, n) == l

\* l[:n]
Slice(l, n) == SubSeq(l, 1, Min2(n, Len(l)))

\* _extract_hashtags
ExtractHashtags(handle, bio) ==
    Slice(Unique(LongPartsLowered(SplitHandle(handle, <<>>)) \o BioHashtags(bio), {}),
          MAX_HASHTAGS)

\* ----------------------------------------------------- hashtags: inputs
\* Parts of the handles the extraction is given: short, long, and one that
\* differs from a bio tag by case only.
HandleParts ==
    {<<"a", "b">>, <<"A", "b", "c">>, <<"n", "i", "k", "e">>}

\* Pieces of the bios the extraction is given: "#x #yz", "#one#Two", "#abc",
\* "#ab", "#" and "_w".
BioPieces ==
    {<<"#", "x", " ", "#", "y", "z">>,
     <<"#", "o", "n", "e", "#", "T", "w", "o">>,
     <<"#", "a", "b", "c">>,
     <<"#", "a", "b">>,
     <<"#">>,
     <<"_", "w">>}

RECURSIVE Concat(_)
\* the texts of a sequence of texts, one after the other
Concat(texts) ==
    IF texts = <<>> THEN <<>> ELSE Head(texts) \o Concat(Tail(texts))

\* the parts with a separator between each two
JoinParts(parts, seps) ==
    Concat([i \in 1..(2 * Len(parts) - 1) |->
               IF i % 2 = 1 THEN parts[(i + 1) \div 2] ELSE <<seps[i \div 2]>>])

TagHandles ==
    UNION {{JoinParts(parts, seps) :
               parts \in [1..k -> HandleParts],
               seps \in [1..(k - 1) -> HandleSeparators]} : k \in 1..MaxHandleParts}

TagBios == {NoBio} \cup {Concat(pieces) : pieces \in SeqsUpTo(BioPieces, MaxBioPieces)}

\* ------------------------------------------------ discovery: data types
\* The discovery methods, in the order discover_influencers runs them.
SourceNames == <<"tagged_posts", "related_profiles", "hashtag_search">>

\* The characters of a brand handle.
HandleChars(handle) ==
    CASE handle = "nike" -> <<"n", "i", "k", "e">>
      [] handle = "lifestyle.anna" ->
            <<"l", "i", "f", "e", "s", "t", "y", "l", "e", ".", "a", "n", "n", "a">>
      [] handle = "ab" -> <<"a", "b">>

\* The brands discovery is called for: a handle with two long parts that is
\* also a pool name, a handle without a long part, and that handle with a
\* bio that holds a hashtag.
BrandProfiles ==
    {[handle |-> "lifestyle.anna", bio |-> NoBio],
     [handle |-> "ab", bio |-> NoBio],
     [handle |-> "ab", bio |-> <<"#", "f", "i", "t">>]}

\* Usernames a live discovery method can report besides the brand itself.
OtherNames == {"u1", "u2"}

\* Texts of the exceptions a discovery method raises.
ExcTexts == {"actor timed out"}

\* InfluencerDiscoveryResult()
EmptyResult ==
    [influencers |-> <<>>, sources_attempted |-> <<>>,
     sources_succeeded |-> <<>>, sources_failed |-> <<>>, errors |-> <<>>]

\* DiscoveredInfluencer(username=..., followers_count=...,
\* discovery_source=..., discovery_context=...)
DiscoveredInfluencer(username, followers_count, source, context) ==
    [username |-> username, followers_count |-> followers_count,
     discovery_source |-> source, discovery_context |-> context]

\* What the provider does when one discovery method is awaited: it yields
\* items with these owner names, in this order, or the call raises.
RawOutcomesOver(names, n) ==
    [ok : {TRUE}, raw : SeqsUpTo(names, n), exc : {NULL}]
    \cup [ok : {FALSE}, raw : {<<>>}, exc : ExcTexts]

RawOutcomes(brand) == RawOutcomesOver(OtherNames \cup {brand}, MaxFound)

\* item.get("ownerFollowers"), related.get("followersCount"): the figure of
\* the i-th item a method receives; no two items carry the same figure
ItemFollowers(source_name, i) ==
    1000 * (CHOOSE k \in 1..Len(SourceNames) : SourceNames[k] = source_name) + i

\* the items a method receives: owner name and follower figure
Items(source_name, raw) ==
    [i \in 1..Len(raw) |-> [owner |-> raw[i], followers |-> ItemFollowers(source_name, i)]]

\* f"Tagged @{brand_handle} in post"
TaggedContext(brand) == <<"Tagged @", brand, " in post">>

\* f"Suggested profile from @{brand_handle}"
RelatedContext(brand) == <<"Suggested profile from @", brand>>

\* f"Found via #{hashtag}"
HashtagContext(hashtag) == <<"Found via #", hashtag>>

\* ---------------------------------------------- discovery: the methods
RECURSIVE FirstSeen(_, _)
\* "if not owner or owner in seen: continue; seen.add(owner)"
FirstSeen(items, seen) ==
    IF items = <<>> THEN <<>>
    ELSE IF Head(items).owner \in seen THEN FirstSeen(Tail(items), seen)
    ELSE <<Head(items)>> \o FirstSeen(Tail(items), seen \cup {Head(items).owner})

\* _discover_from_tagged_posts: one candidate per distinct post owner
DiscoverFromTaggedPosts(brand, raw) ==
    LET kept == FirstSeen(Items("tagged_posts", raw), {})
    IN  [i \in 1..Len(kept) |->
            DiscoveredInfluencer(kept[i].owner, kept[i].followers, "tagged_posts",
                                 TaggedContext(brand))]

\* _discover_from_related_profiles: one candidate per related profile,
\* repeated names included
DiscoverFromRelatedProfiles(brand, raw) ==
    LET items == Items("related_profiles", raw)
    IN  [i \in 1..Len(items) |->
            DiscoveredInfluencer(items[i].owner, items[i].followers, "related_profiles",
                                 RelatedContext(brand))]

\* variant: the exception of a hashtag's query leaves the method
OnQueryFailureRaising(acc) == [acc EXCEPT !.ok = FALSE]

\* "except Exception as exc: logger.warning(...)" inside the loop over the
\* hashtags: the loop goes on with what it has
OnQueryFailure(acc) == acc

\* one pass of "for hashtag in hashtags[:_MAX_HASHTAGS]": query says which
\* items the query of this hashtag yielded and whether it then raised
HashtagPass(acc, hashtag, query) ==
    LET kept == FirstSeen(Items("hashtag_search", query.raw), acc.seen)
        after == [acc EXCEPT
                    !.influencers = @ \o
                        [i \in 1..Len(kept) |->
                            DiscoveredInfluencer(kept[i].owner, kept[i].followers,
                                                 "hashtag_search", HashtagContext(hashtag))],
                    !.seen = @ \cup {kept[i].owner : i \in 1..Len(kept)}]
    IN  IF query.ok THEN after ELSE OnQueryFailure(after)

RECURSIVE HashtagLoop(_, _, _, _)
\* the passes of the loop from hashtag k on; an exception that leaves a
\* pass ends the loop
HashtagLoop(acc, hashtags, queries, k) ==
    IF k > Len(hashtags) \/ ~acc.ok THEN acc
    ELSE HashtagLoop(HashtagPass(acc, hashtags[k], queries[k]), hashtags, queries, k + 1)

\* _discover_from_hashtags once the hashtags are known to be non-empty,
\* given what the query of each hashtag does: whether the method returned
\* and the candidates it had collected, one per distinct post owner
DiscoverFromHashtagQueries(hashtags, queries) ==
    HashtagLoop([ok |-> TRUE, influencers |-> <<>>, seen |-> {}],
                Slice(hashtags, MAX_HASHTAGS), queries, 1)

\* _discover_from_hashtags when the query of the first hashtag yields the
\* items raw and the queries of the later hashtags yield none
DiscoverFromHashtags(hashtags, raw) ==
    DiscoverFromHashtagQueries(
        hashtags,
        [k \in 1..Len(Slice(hashtags, MAX_HASHTAGS)) |->
            [ok |-> TRUE, raw |-> IF k = 1 THEN raw ELSE <<>>]]).influencers

\* variant: the hashtag method builds its client before it looks at the
\* extracted hashtags
QueriesNothingLate(hashtags) == FALSE

\* "if not hashtags: return []": the hashtag method returns before it
\* builds a client or queries
QueriesNothing(hashtags) == hashtags = <<>>

\* "found = await method(*args)" for the method named source_name, the
\* provider behaving as outcome says: whether the method returned, the
\* items it received, the exception text, the candidates it returned and
\* the hashtags it queried
Await(source_name, outcome, brand, bio) ==
    LET hashtags == ExtractHashtags(HandleChars(brand), bio)
        nothing == [ok |-> TRUE, raw |-> <<>>, exc |-> NULL,
                    found |-> <<>>, queried |-> <<>>]
        raised == [ok |-> FALSE, raw |-> <<>>, exc |-> outcome.exc,
                   found |-> <<>>, queried |-> <<>>]
        returned(found, queried) ==
            [ok |-> TRUE, raw |-> outcome.raw, exc |-> NULL,
             found |-> found, queried |-> queried]
    IN  IF source_name = "hashtag_search" /\ QueriesNothing(hashtags)
        THEN nothing
        ELSE IF ~outcome.ok THEN raised
        ELSE IF source_name = "tagged_posts"
             THEN returned(DiscoverFromTaggedPosts(brand, outcome.raw), <<>>)
        ELSE IF source_name = "related_profiles"
             THEN returned(DiscoverFromRelatedProfiles(brand, outcome.raw), <<>>)
        ELSE IF hashtags = <<>> THEN returned(<<>>, <<>>)
        ELSE returned(DiscoverFromHashtags(hashtags, outcome.raw),
                      Slice(hashtags, MAX_HASHTAGS))

\* "found = await self._discover_from_hashtags(brand_handle, brand_bio)",
\* the query of the k-th extracted hashtag behaving as queries[k] says
AwaitHashtags(queries, brand, bio) ==
    LET hashtags == ExtractHashtags(HandleChars(brand), bio)
        done == DiscoverFromHashtagQueries(hashtags, queries)
    IN  IF QueriesNothing(hashtags)
        THEN [ok |-> TRUE, raw |-> <<>>, exc |-> NULL, found |-> <<>>,
              queried |-> <<>>, queries |-> <<>>]
        ELSE [ok |-> done.ok, raw |-> <<>>,
              exc |-> IF done.ok THEN NULL ELSE "hashtag query failed",
              found |-> IF done.ok THEN done.influencers ELSE <<>>,
              queried |-> Slice(hashtags, MAX_HASHTAGS), queries |-> queries]

\* ------------------------------------------- discovery: the aggregator
\* variant: the brand's own handle is not skipped
SkipSeenOnly(inf, seen, brand) == inf.username \in seen

\* the two "continue" tests of the merge loop
SkipCandidate(inf, seen, brand) ==
    \/ inf.username = brand
    \/ inf.username \in seen

RECURSIVE MergeFoundLastWins(_, _, _)
\* variant: a candidate seen before replaces the one kept
MergeFoundLastWins(acc, found, brand) ==
    IF found = <<>> THEN acc
    ELSE LET inf == Head(found) IN
         IF inf.username = brand
         THEN MergeFoundLastWins(acc, Tail(found), brand)
         ELSE IF inf.username \in acc.seen
         THEN MergeFoundLastWins(
                  [acc EXCEPT !.influencers =
                      [i \in 1..Len(@) |-> IF @[i].username = inf.username THEN inf ELSE @[i]]],
                  Tail(found), brand)
         ELSE MergeFoundLastWins([influencers |-> Append(acc.influencers, inf),
                                  seen |-> acc.seen \cup {inf.username}],
                                 Tail(found), brand)

RECURSIVE MergeFoundCapped(_, _, _)
\* variant: candidates are merged until the result holds one
MergeFoundCapped(acc, found, brand) ==
    IF found = <<>> \/ Len(acc.influencers) >= 1 THEN acc
    ELSE LET inf == Head(found) IN
         IF inf.username = brand \/ inf.username \in acc.seen
         THEN MergeFoundCapped(acc, Tail(found), brand)
         ELSE MergeFoundCapped([influencers |-> Append(acc.influencers, inf),
                                seen |-> acc.seen \cup {inf.username}],
                               Tail(found), brand)

RECURSIVE MergeFound(_, _, _)
\* "for inf in found: ..." over acc = [influencers, seen]
MergeFound(acc, found, brand) ==
    IF found = <<>> THEN acc
    ELSE LET inf == Head(found) IN
         IF SkipCandidate(inf, acc.seen, brand)
         THEN MergeFound(acc, Tail(found), brand)
         ELSE MergeFound([influencers |-> Append(acc.influencers, inf),
                          seen |-> acc.seen \cup {inf.username}],
                         Tail(found), brand)

\* variant: the error text without the source name
ErrorStringBare(source_name, exc) == <<exc>>

\* f"{source_name}: {exc}", kept as its three pieces
ErrorString(source_name, exc) == <<source_name, ": ", exc>>

\* the try branch: the method returned found
OnMethodSuccess(st, source_name, found, brand) ==
    LET merged == MergeFound([influencers |-> st.result.influencers,
                              seen |-> st.seen_usernames], found, brand)
    IN  [result |-> [st.result EXCEPT
                        !.sources_succeeded = Append(@, source_name),
                        !.influencers = merged.influencers],
         seen_usernames |-> merged.seen]

\* variant: the source was appended to sources_succeeded before its method
\* was awaited
OnMethodFailureSucceeded(st, source_name, exc) ==
    [st EXCEPT !.result.sources_succeeded = Append(@, source_name),
               !.result.sources_failed = Append(@, source_name),
               !.result.errors = Append(@, ErrorString(source_name, exc))]

\* the except branch: the method raised exc
OnMethodFailure(st, source_name, exc) ==
    [st EXCEPT !.result.sources_failed = Append(@, source_name),
               !.result.errors = Append(@, ErrorString(source_name, exc))]

\* one pass of "for source_name, method, args in discovery_methods", done
\* being what awaiting the method did
DiscoveryPass(st, source_name, done, brand) ==
    LET attempted == [st EXCEPT !.result.sources_attempted = Append(@, source_name)]
    IN  IF done.ok
        THEN OnMethodSuccess(attempted, source_name, done.found, brand)
        ELSE OnMethodFailure(attempted, source_name, done.exc)

\* variant: a method's failure ends the loop
NextMethodAbortOnFailure(idx, outcome) ==
    IF outcome.ok THEN idx + 1 ELSE Len(SourceNames) + 1

\* the loop goes on to the next method whatever the outcome was
NextMethod(idx, outcome) == idx + 1

RECURSIVE DiscoverFrom(_, _, _, _, _)
\* the passes from method idx on, given what the provider does for each method
DiscoverFrom(st, idx, outs, brand, bio) ==
    IF idx > Len(SourceNames) THEN st
    ELSE LET done == Await(SourceNames[idx], outs[idx], brand, bio)
         IN  DiscoverFrom(DiscoveryPass(st, SourceNames[idx], done, brand),
                          NextMethod(idx, done), outs, brand, bio)

\* discover_influencers in live mode, as a function of what the provider does
DiscoverInfluencersLive(brand, bio, outs) ==
    DiscoverFrom([result |-> EmptyResult, seen_usernames |-> {}], 1, outs, brand, bio).result

\* ------------------------------------------------- discovery: mock mode
\* _INFLUENCER_POOLS
InfluencerPools(source) ==
    IF source = "tagged_posts" THEN
        <<"lifestyle.anna", "fitcoach_mike", "beauty.daily.pl", "travel.kate",
          "foodie_adventures", "style.with.emma", "wellness_guru", "tech.reviews.pl",
          "home.inspo.daily", "mama.blogger.cz">>
    ELSE IF source = "related_profiles" THEN
        <<"brand.collab.hub", "digital.native.ro", "content.creator.pl",
          "social.media.pro", "influencer.daily", "creator.economy",
          "viral.content.cz", "trending.now.pl">>
    ELSE
        <<"skincare.routine.daily", "ootd.polska", "healthyliving.cz",
          "makeup.tutorials.ro", "gym.motivation.pl", "vegan.eats.europe",
          "diy.home.decor", "book.club.cee", "pet.lovers.daily", "eco.living.pl">>

\* rng.randint(8, 15)
MinTotalCount == 8

MaxTotalCount == 15

\* a split that leaves nothing for the third pool
MockCountsWithoutHashtags(total) ==
    <<total \div 2, total - (total \div 2), 0>>

\* tagged_count, related_count, hashtag_count; int(total_count * 0.4) and
\* int(total_count * 0.3) truncate, and for 8..15 equal the integer quotients
MockCounts(total) ==
    LET tagged_count == Max2(2, (total * 4) \div 10)
        related_count == Max2(2, (total * 3) \div 10)
    IN  <<tagged_count, related_count, total - tagged_count - related_count>>

\* "[u for u in pool if u != handle and u not in seen_usernames]"
Available(pool, handle, seen) == SelectSeqBy(pool, {handle} \cup seen)

\* rng.sample(available, k): k distinct elements of available; the draws
\* modelled are the runs of k consecutive elements from offset off, cyclically
Sample(available, k, off) ==
    [i \in 1..k |-> available[((off + i - 1) % Len(available)) + 1]]

\* rng.randint(1_000, 200_000): the figure modelled for the pick added at
\* position i of the list
MockFollowers(i) == 1000 + i

\* f"Mock discovery via {source} for @{handle}"
MockContext(source, handle) == <<"Mock discovery via ", source, " for @", handle>>

\* one pass of the loop over the three pools
MockPass(st, source, count, handle, off) ==
    LET available == Available(InfluencerPools(source), handle, st.seen_usernames)
        picked == Sample(available, Min2(count, Len(available)), off)
        before == Len(st.result.influencers)
    IN  [result |-> [st.result EXCEPT !.influencers =
                        @ \o [i \in 1..Len(picked) |->
                                DiscoveredInfluencer(picked[i], MockFollowers(before + i),
                                                     source, MockContext(source, handle))]],
         seen_usernames |-> st.seen_usernames \cup Range(picked)]

\* the InfluencerDiscoveryResult the mock returns
MockReturnValue(influencers) ==
    [influencers |-> influencers,
     sources_attempted |-> <<"tagged_posts", "related_profiles", "hashtag_search">>,
     sources_succeeded |-> <<"tagged_posts", "related_profiles", "hashtag_search">>,
     sources_failed |-> <<>>,
     errors |-> <<>>]

\* ------------------------------------------------- scoring: the numbers
\* Decimal numbers (Python floats) are kept as whole numbers of 1/Unit, the
\* grid of the four decimals the composite scores are rounded to; a quotient
\* is rounded to the nearest point of the grid.
Unit == 10000

\* the decimal whole/1 on the grid
Whole(n) == n * Unit

\* the quotient a / b, b > 0, rounded to the nearest integer, halves to even
RoundDiv(a, b) ==
    LET q == a \div b
        r == a % b
    IN  IF 2 * r < b THEN q
        ELSE IF 2 * r > b THEN q + 1
        ELSE IF q % 2 = 0 THEN q ELSE q + 1

RECURSIVE LongDiv(_, _, _)
\* a * 100^k / b, b > 0, rounded down, with its remainder: the long division
\* by two decimals at a time, which keeps the products small
LongDiv(a, b, k) ==
    IF k = 0 THEN <<a \div b, a % b>>
    ELSE LET upper == LongDiv(a, b, k - 1)
         IN  <<upper[1] * 100 + (upper[2] * 100) \div b, (upper[2] * 100) % b>>

\* the quotient a / b, b > 0, on the grid (100^2 = Unit)
Ratio(a, b) ==
    LET upper == LongDiv(a, b, 1)
    IN  upper[1] * 100 + RoundDiv(upper[2] * 100, b)

\* "int(x)" of the quotient a / b, b > 0: rounded towards zero
TruncDiv(a, b) == IF a >= 0 THEN a \div b ELSE -((-a) \div b)

\* "round(x, k)": x on the grid, rounded to a multiple of grain grid points
RoundTo(x, grain) == grain * RoundDiv(x, grain)

RECURSIVE Sum(_)
\* "sum(...)" of a list of numbers
Sum(l) == IF l = <<>> THEN 0 ELSE Head(l) + Sum(Tail(l))

RECURSIVE SqrtBetween(_, _, _)
\* the largest r in lo..hi with r * r <= x
SqrtBetween(x, lo, hi) ==
    IF lo >= hi THEN lo
    ELSE LET mid == (lo + hi + 1) \div 2
         IN  IF mid * mid <= x THEN SqrtBetween(x, mid, hi)
             ELSE SqrtBetween(x, lo, mid - 1)

\* "math.sqrt(x)" of a whole number x >= 0, rounded to the nearest integer
Sqrt(x) ==
    LET r == SqrtBetween(x, 0, 46340)
    IN  IF x - r * r > r THEN r + 1 ELSE r

\* the coefficient of variation sqrt(sum((x - mean)^2) / n) / mean of a list
\* of whole numbers with a positive sum, squared, as the fraction <<num, den>>
CvSquared(l) ==
    LET n == Len(l)
        total == Sum(l)
    IN  <<Sum([i \in 1..n |-> (n * l[i] - total) * (n * l[i] - total)]), n * total * total>>

\* the coefficient of variation of such a list times 10^k
Cv(l, k) == Sqrt(LongDiv(CvSquared(l)[1], CvSquared(l)[2], k)[1])

RECURSIVE SortAscending(_)
\* "sorted(...)" of a list of numbers
SortAscending(l) ==
    IF l = <<>> THEN <<>>
    ELSE LET at == CHOOSE i \in 1..Len(l) : \A j \in 1..Len(l) : l[i] <= l[j]
         IN  <<l[at]>> \o SortAscending([k \in 1..(Len(l) - 1) |->
                                            IF k < at THEN l[k] ELSE l[k + 1]])

\* variant: min(1.0, x) and max(0.0, x) are left out
ClampNothing(x) == x

\* "max(0.0, min(1.0, x))"
Clamp(x) == Max2(0, Min2(Unit, x))

\* A value that may be None is a list: empty for None, else the value alone.
None == <<>>

Some(x) == <<x>>

\* variant: a count that is None is taken as 1
OrOne(x) == IF x = None THEN 1 ELSE x[1]

\* "x or 0" of a count that may be None
OrZero(x) == IF x = None THEN 0 ELSE x[1]

\* ------------------------------------------------ scoring: the profiles
\* PostData(post_type=..., caption=..., likes_count=..., comments_count=...,
\* timestamp=..., hashtags=...): the caption is kept as its length, the
\* timestamp as a whole number of days or None
PostData(post_type, caption_len, likes_count, comments_count, timestamp, hashtags) ==
    [post_type |-> post_type, caption_len |-> caption_len, likes_count |-> likes_count,
     comments_count |-> comments_count, timestamp |-> timestamp, hashtags |-> hashtags]

\* InfluencerProfileResult(followers_count=..., following_count=...,
\* recent_posts=...)
InfluencerProfileResult(followers_count, following_count, recent_posts) ==
    [followers_count |-> followers_count, following_count |-> following_count,
     recent_posts |-> recent_posts]

\* variant: a post without a timestamp counts as posted on day 0
TimestampsWithEpoch(posts) ==
    [i \in 1..Len(posts) |-> OrZero(posts[i].timestamp)]

\* "[p.timestamp for p in posts if p.timestamp]"
Timestamps(posts) ==
    LET dated == SelectSeq(posts, LAMBDA p : p.timestamp # None)
    IN  [i \in 1..Len(dated) |-> dated[i].timestamp[1]]

\* the differences between consecutive entries of a sorted list
Gaps(sorted) == [i \in 1..(Len(sorted) - 1) |-> sorted[i + 1] - sorted[i]]

\* ---------------------------------------------- scoring: the functions
\* "if not posts or followers == 0"
NoEngagement(posts, followers) == posts = <<>> \/ followers = 0

\* calculate_engagement_metrics
CalculateEngagementMetrics(profile) ==
    LET posts == profile.recent_posts
        followers == OrZero(profile.followers_count)
        n == Len(posts)
        total_likes == Sum([i \in 1..n |-> posts[i].likes_count])
        total_comments == Sum([i \in 1..n |-> posts[i].comments_count])
        sign == IF followers < 0 THEN -1 ELSE 1
    IN  IF NoEngagement(posts, followers)
        THEN [engagement_rate |-> 0, avg_likes |-> 0, avg_comments |-> 0]
        ELSE [engagement_rate |->
                  Ratio(sign * (total_likes + total_comments), sign * n * followers),
              avg_likes |-> RoundDiv(total_likes * 100, n) * 100,
              avg_comments |-> RoundDiv(total_comments * 100, n) * 100]

\* calculate_fraud_score, signal 1: follower/following ratio
FollowerFollowingRatio(followers, following) ==
    IF following > 0
    THEN IF followers < following
         THEN Min2(Unit, Unit - Ratio(followers, following))
         ELSE IF followers > 100 * following
              THEN Min2(Unit, Ratio(followers - 100 * following, 500 * following))
              ELSE 0
    ELSE 5000

\* calculate_fraud_score, signal 2: engagement anomaly
EngagementAnomaly(followers, engagement_rate) ==
    IF followers > 0
    THEN IF engagement_rate < 50
         THEN Min2(Unit, Ratio(50 - engagement_rate, 50))
         ELSE IF engagement_rate > 2000
              THEN Min2(Unit, Ratio(engagement_rate - 2000, 3000))
              ELSE 0
    ELSE 5000

\* calculate_fraud_score, signal 3: like/comment ratio; comment_ratio is
\* avg_comments / avg_likes, so comment_ratio < 0.01 is
\* 100 * avg_comments < avg_likes, (0.01 - comment_ratio) / 0.01 is
\* (avg_likes - 100 * avg_comments) / avg_likes, comment_ratio > 0.20 is
\* 5 * avg_comments > avg_likes and (comment_ratio - 0.20) / 0.30 is
\* (10 * avg_comments - 2 * avg_likes) / (3 * avg_likes)
LikeCommentRatio(avg_likes, avg_comments) ==
    IF avg_likes > 0
    THEN IF 100 * avg_comments < avg_likes
         THEN Min2(Unit, Ratio(avg_likes - 100 * avg_comments, avg_likes))
         ELSE IF 5 * avg_comments > avg_likes
              THEN Min2(Unit, Ratio(10 * avg_comments - 2 * avg_likes, 3 * avg_likes))
              ELSE 0
    ELSE 3000

\* calculate_fraud_score, signal 4: engagement consistency; cv < 0.10 is
\* 100 * cv^2 < 1 and (0.10 - cv) / 0.10 is 1 - 10 * cv
EngagementConsistency(posts) ==
    IF Len(posts) >= 3
    THEN LET likes_list == [i \in 1..Len(posts) |-> posts[i].likes_count]
         IN  IF Sum(likes_list) > 0
             THEN IF 100 * CvSquared(likes_list)[1] < CvSquared(likes_list)[2]
                  THEN Min2(Unit, Unit - Cv(likes_list, 5))
                  ELSE 0
             ELSE 3000
    ELSE 3000

\* calculate_fraud_score, signal 5: posting frequency; gap_cv < 0.05 is
\* 400 * gap_cv^2 < 1 and gap_cv > 3.0 is gap_cv^2 > 9
PostingRegularity(posts, timestamps) ==
    IF Len(posts) >= 3
    THEN IF Len(timestamps) >= 3
         THEN LET gaps == Gaps(SortAscending(timestamps))
              IN  IF Sum(gaps) > 0
                  THEN IF 400 * CvSquared(gaps)[1] < CvSquared(gaps)[2] THEN 8000
                       ELSE IF CvSquared(gaps)[1] > 9 * CvSquared(gaps)[2]
                            THEN Min2(Unit, Ratio(Cv(gaps, 4) - 3 * Unit, 5 * Unit))
                            ELSE 0
                  ELSE 5000
         ELSE 3000
    ELSE 3000

\* the weights of the fraud signals, in hundredths
FraudWeights ==
    [follower_following_ratio |-> 20, engagement_anomaly |-> 25, like_comment_ratio |-> 20,
     engagement_consistency |-> 20, posting_frequency |-> 15]

RECURSIVE WeightedSum(_, _, _)
\* "sum(indicators[k] * weights[k] for k in keys)"
WeightedSum(indicators, weights, keys) ==
    IF keys = {} THEN 0
    ELSE LET k == CHOOSE key \in keys : TRUE
         IN  indicators[k] * weights[k] + WeightedSum(indicators, weights, keys \ {k})

\* "sum(indicators[k] * weights[k] for k in weights)", weights in hundredths
Weighted(indicators, weights) ==
    RoundDiv(WeightedSum(indicators, weights, DOMAIN weights), 100)

\* calculate_fraud_score
CalculateFraudScore(profile, engagement_rate, avg_likes, avg_comments) ==
    LET followers == OrZero(profile.followers_count)
        following == OrZero(profile.following_count)
        posts == profile.recent_posts
        indicators ==
            [follower_following_ratio |-> FollowerFollowingRatio(followers, following),
             engagement_anomaly |-> EngagementAnomaly(followers, engagement_rate),
             like_comment_ratio |-> LikeCommentRatio(avg_likes, avg_comments),
             engagement_consistency |-> EngagementConsistency(posts),
             posting_frequency |-> PostingRegularity(posts, Timestamps(posts))]
    IN  [fraud_score |-> Clamp(Weighted(indicators, FraudWeights)),
         fraud_indicators |-> indicators]

\* calculate_content_quality, signal 1: caption quality, from the total
\* caption length of n posts
CaptionQuality(total_len, n) ==
    IF total_len >= 100 * n THEN Min2(Unit, Ratio(total_len, 300 * n))
    ELSE IF total_len >= 30 * n THEN Ratio(total_len, 100 * n)
    ELSE Max2(1000, Ratio(total_len, 100 * n))

\* calculate_content_quality, signal 2: hashtag usage, from the total number
\* of hashtags of n posts
HashtagUsage(total_hashtags, n) ==
    IF 5 * n <= total_hashtags /\ total_hashtags <= 15 * n THEN Unit
    ELSE IF total_hashtags < 5 * n THEN Max2(2000, Ratio(total_hashtags, 5 * n))
    ELSE Max2(3000, Unit - Ratio(total_hashtags - 15 * n, 20 * n))

\* posts_per_week: "len(timestamps) / max(span / (7 * 24 * 3600), 0.1)", the
\* span in days; span / 7 >= 0.1 is 10 * span >= 7
PostsPerWeek(count, span) ==
    IF 10 * span >= 7 THEN Ratio(7 * count, span) ELSE Whole(10 * count)

\* calculate_content_quality, signal 3: posting frequency
PostingCadence(timestamps) ==
    IF Len(timestamps) >= 2
    THEN LET timestamps_sorted == SortAscending(timestamps)
             span == timestamps_sorted[Len(timestamps_sorted)] - timestamps_sorted[1]
             posts_per_week == PostsPerWeek(Len(timestamps), span)
         IN  IF Whole(2) <= posts_per_week /\ posts_per_week <= Whole(7) THEN Unit
             ELSE IF posts_per_week < Whole(2) THEN Max2(2000, RoundDiv(posts_per_week, 2))
             ELSE Max2(4000, Unit - RoundDiv(posts_per_week - Whole(7), 14))
    ELSE 3000

\* calculate_content_quality, signal 4: media type diversity
MediaTypeDiversity(posts) ==
    LET type_count == Cardinality({posts[i].post_type : i \in 1..Len(posts)})
    IN  IF type_count >= 3 THEN Unit
        ELSE IF type_count = 2 THEN 7000
        ELSE 3000

\* the weights of the content signals, in hundredths
ContentWeights ==
    [caption_quality |-> 30, hashtag_usage |-> 20, posting_frequency |-> 25,
     media_type_diversity |-> 25]

\* calculate_content_quality
CalculateContentQuality(profile) ==
    LET posts == profile.recent_posts
        n == Len(posts)
        analysis ==
            [caption_quality |->
                 CaptionQuality(Sum([i \in 1..n |-> posts[i].caption_len]), n),
             hashtag_usage |->
                 HashtagUsage(Sum([i \in 1..n |-> Len(posts[i].hashtags)]), n),
             posting_frequency |-> PostingCadence(Timestamps(posts)),
             media_type_diversity |-> MediaTypeDiversity(posts)]
    IN  IF posts = <<>>
        THEN [content_quality_score |-> 0,
              content_analysis |->
                  [caption_quality |-> 0, hashtag_usage |-> 0, posting_frequency |-> 0,
                   media_type_diversity |-> 0]]
        ELSE [content_quality_score |-> Clamp(Weighted(analysis, ContentWeights)),
              content_analysis |-> analysis]

\* _classify_follower_tier
ClassifyFollowerTier(followers) ==
    IF followers < 10000 THEN "nano"
    ELSE IF followers < 50000 THEN "micro"
    ELSE IF followers < 500000 THEN "mid"
    ELSE "macro"

\* calculate_audience_quality: base_quality
BaseQuality(engagement_rate) ==
    IF engagement_rate >= 500 THEN 9000
    ELSE IF engagement_rate >= 300 THEN 7000
    ELSE IF engagement_rate >= 100 THEN 5000
    ELSE 2000

\* calculate_audience_quality; quality is base_quality * (1 - fraud_score * 0.8)
CalculateAudienceQuality(profile, engagement_rate, fraud_score) ==
    LET followers == OrZero(profile.followers_count)
        quality == RoundDiv((BaseQuality(engagement_rate) \div 1000)
                                * (10 * Unit - 8 * fraud_score), 100)
    IN  [audience_quality_score |-> Clamp(quality),
         audience_demographics |->
             [estimated_real_followers_pct |-> RoundTo(100 * (Unit - fraud_score), 1000),
              engagement_quality |->
                  IF engagement_rate >= 500 THEN "high"
                  ELSE IF engagement_rate >= 200 THEN "medium"
                  ELSE "low",
              follower_tier |-> ClassifyFollowerTier(followers)]]

\* tier_reach_multipliers: 0.25, 0.15, 0.08 and 0.04 as fractions
TierReachMultipliers ==
    [nano |-> <<1, 4>>, micro |-> <<3, 20>>, mid |-> <<2, 25>>, macro |-> <<1, 25>>]

\* tier_base_cpm
TierBaseCpm == [nano |-> 5, micro |-> 8, mid |-> 12, macro |-> 18]

\* estimate_reach_and_cpm; engagement_boost, 1.0 + min(engagement_rate * 10,
\* 1.0), is kept in thousandths, where it is 1000 + min(engagement_rate, 1000)
\* for an engagement_rate on the grid
EstimateReachAndCpm(followers, engagement_rate, content_quality) ==
    LET tier == ClassifyFollowerTier(followers)
        base_reach_pct == TierReachMultipliers[tier]
        engagement_boost == 1000 + Min2(engagement_rate, 1000)
        quality_mult == 7000 + RoundDiv(content_quality * 6, 10)
        engagement_mult == 8000 + Min2(engagement_rate * 8, 8000)
    IN  IF followers = 0
        THEN [estimated_reach |-> 0, estimated_cpm |-> 0]
        ELSE [estimated_reach |->
                  TruncDiv(followers * base_reach_pct[1] * engagement_boost,
                           base_reach_pct[2] * 1000),
              estimated_cpm |->
                  RoundTo(TierBaseCpm[tier] * RoundDiv(quality_mult * engagement_mult, Unit),
                          100)]

\* "hashtags.update(p.hashtags)" over the posts of a profile
HashtagSet(profile) ==
    UNION {Range(profile.recent_posts[i].hashtags) : i \in 1..Len(profile.recent_posts)}

\* variant: the sample size has no floor
SampleSizeNoFloor(followers_a, followers_b) == Min2(Min2(followers_a, followers_b), 10000)

\* "max(min(followers_a, followers_b, 10_000), 100)"
SampleSize(followers_a, followers_b) ==
    Max2(Min2(Min2(followers_a, followers_b), 10000), 100)

\* estimate_audience_overlap; 5 + (jaccard * 0.6 + size_similarity * 0.4) * 40
\* is 5 + 24 * jaccard + 16 * size_similarity, rounded to one decimal
EstimateAudienceOverlap(profile_a, profile_b) ==
    LET hashtags_a == HashtagSet(profile_a)
        hashtags_b == HashtagSet(profile_b)
        both == hashtags_a # {} /\ hashtags_b # {}
        intersection == IF both THEN Cardinality(hashtags_a \cap hashtags_b) ELSE 0
        union == IF both THEN Cardinality(hashtags_a \cup hashtags_b) ELSE 1
        followers_a == OrZero(profile_a.followers_count)
        followers_b == OrZero(profile_b.followers_count)
        sized == followers_a > 0 /\ followers_b > 0
        smaller == IF sized THEN Min2(followers_a, followers_b) ELSE 0
        larger == IF sized THEN Max2(followers_a, followers_b) ELSE 1
        overlap_pct ==
            Whole(5) + 1000 * RoundDiv(240 * intersection * larger + 160 * smaller * union,
                                       union * larger)
    IN  [overlap_percentage |-> Max2(Whole(5), Min2(Whole(45), overlap_pct)),
         sample_size |-> SampleSize(followers_a, followers_b)]

\* "scores.get(key, default)" of a bundle that may lack the key
Get(scores, key, default) == IF key \in DOMAIN scores THEN scores[key] ELSE default

\* variant: the engagement is not capped
NormalizedEngagementUncapped(engagement) == 10 * engagement

\* "min(engagement / 0.10, 1.0)"
NormalizedEngagement(engagement) == Min2(10 * engagement, Unit)

\* calculate_health_score: "individual" of one bundle, in hundredths of the grid
Individual(scores) ==
    LET fraud == Get(scores, "fraud_score", 5000)
        content == Get(scores, "content_quality_score", 0)
        audience == Get(scores, "audience_quality_score", 0)
        engagement == Get(scores, "engagement_rate", 0)
        normalized_engagement == NormalizedEngagement(engagement)
    IN  (Unit - fraud) * 30 + content * 25 + audience * 25 + normalized_engagement * 20

\* variant: without a bundle the score is the middle of the scale
CalculateHealthScoreFromMiddle(influencer_scores) ==
    IF influencer_scores = <<>> THEN Whole(50)
    ELSE 1000 * RoundDiv(Sum([i \in 1..Len(influencer_scores) |->
                                 Individual(influencer_scores[i])]),
                         1000 * Len(influencer_scores))

\* calculate_health_score: "round(avg * 100, 1)"
CalculateHealthScore(influencer_scores) ==
    IF influencer_scores = <<>> THEN 0
    ELSE 1000 * RoundDiv(Sum([i \in 1..Len(influencer_scores) |->
                                 Individual(influencer_scores[i])]),
                         1000 * Len(influencer_scores))

\* ------------------------------------------------- scoring: the inputs
\* Posts a scored profile is made of: a captioned image with five hashtags,
\* a short video a week later, an image without a timestamp whose like count
\* is hidden (-1), a long carousel another week later, and a reel without
\* likes.
PostSamples ==
    {PostData("image", 150, 100, 5, Some(0), <<"a", "b", "c", "d", "e">>),
     PostData("video", 20, 104, 0, Some(7), <<>>),
     PostData("image", 0, -1, 2, None, <<"b", "f">>),
     PostData("carousel", 400, 300, 90, Some(14), <<"a">>),
     PostData("reel", 60, 0, 0, Some(1), <<"f", "f">>)}

FollowerCounts == {None, Some(0), Some(-50), Some(2000), Some(60000)}

FollowingCounts == {None, Some(100), Some(5000)}

\* the profiles with one of these post lists and these counts
ProfilesOver(post_lists, followers, following) ==
    {InfluencerProfileResult(f, g, l) : f \in followers, g \in following, l \in post_lists}

ScoredProfiles == ProfilesOver(SeqsUpTo(PostSamples, MaxPosts), FollowerCounts, FollowingCounts)

\* profiles that differ in their follower count only
BareProfiles == ProfilesOver({<<>>}, FollowerCounts, {None})

\* profiles whose overlap is estimated
OverlapProfiles ==
    ProfilesOver(SeqsUpTo(PostSamples, MaxOverlapPosts), FollowerCounts, {None})

\* engagement rates: -0.2, 0, 0.03, 0.3 and 1.0
EngagementRates == {-2000, 0, 300, 3000, Unit}

\* arguments engagement_rate, avg_likes and avg_comments of the fraud score
FraudArguments ==
    {<<0, 0, 0>>, <<300, Whole(100), Whole(5)>>, <<-2000, -Whole(1), Whole(2)>>,
     <<3000, Whole(100), 0>>, <<Unit, Whole(100), Whole(90)>>, <<40, Whole(100), Whole(25)>>}

\* fraud and content scores, inside and outside the range from 0 to 1
ScoreValues == {-Unit, 0, 2500, Unit, 2 * Unit}

\* follower counts given to estimate_reach_and_cpm
ReachFollowers == {0, -50, 2000, 20000, 60000, 500000}

\* a bundle with these keys out of the four of a full bundle
Bundle(full, keys) == [k \in keys |-> full[k]]

\* Score bundles: perfect, perfect with engagement above the cap, typical,
\* without keys, with a content score only, and with a value below or above
\* its range.
BundleSamples ==
    LET perfect == [fraud_score |-> 0, content_quality_score |-> Unit,
                    audience_quality_score |-> Unit, engagement_rate |-> 1000]
    IN  {perfect,
         [perfect EXCEPT !.engagement_rate = 5000],
         [fraud_score |-> 2000, content_quality_score |-> 6000,
          audience_quality_score |-> 5000, engagement_rate |-> 300],
         Bundle(perfect, {}),
         Bundle(perfect, {"content_quality_score"}),
         [perfect EXCEPT !.fraud_score = -Unit],
         [perfect EXCEPT !.content_quality_score = 3 * Unit],
         [fraud_score |-> Unit, content_quality_score |-> 0,
          audience_quality_score |-> 0, engagement_rate |-> -Unit]}

\* ---------------------------------------------------------------- state
VARIABLES
    brand_handle,     \* the brand's instagram handle
    brand_bio,        \* the brand's bio
    is_mock_mode,     \* InstagramDataSource.is_mock_mode
    total_count,      \* the mock's rng.randint(8, 15); 0 in live mode
    method_order,     \* discovery_methods: the methods in the order they are run
    method_idx,       \* position of the loop over the discovery methods
    result,           \* the InfluencerDiscoveryResult being built
    seen_usernames,   \* the set seen_usernames
    outcomes,         \* what each awaited discovery method did, in order
    queried,          \* history: the hashtags the hashtag method has queried
    dpc,              \* discover_influencers: "idle", "running" or "returned"
    pc,               \* where run_audit is
    step,             \* index into PIPELINE_STEPS of the loop of run_audit
    db,               \* what storage holds committed
    sess,             \* what the session holds: db plus the uncommitted writes
    profiles,         \* the keys of AuditOrchestrator._profiles
    discovery,        \* _discover_influencers: discovery.influencers
    existing,         \* _discover_influencers: existing, handle -> influencer id
    link_idx,         \* _discover_influencers: position in discovery.influencers
    ai_idx,           \* _analyze_influencers: position in audit_influencers
    exc,              \* str(exc) of the exception run_audit caught
    faults,           \* storage calls that have raised so far
    status_log,       \* history: the status values committed by this run
    work_started,     \* history: the steps whose handler has been entered
    work_returned,    \* history: the steps whose handler has returned
    failed_step,      \* history: the step whose work raised, 0 if none
    step_start,       \* history: the stored records when the current handler began
    fetches,          \* history: the profile fetches awaited by this run
    absent,           \* the records the run refers to that storage lacks
    invocations,      \* how many times run_audit has been called for the audit
    tag_handle,       \* _extract_hashtags: the argument handle
    tag_bio,          \* _extract_hashtags: the argument bio
    tag_result,       \* _extract_hashtags: the list returned
    tag_pc,           \* _extract_hashtags: "idle", "called" or "returned"
    store,            \* concurrent runs: the influencer and join rows committed
    runs,             \* concurrent runs: the discovery step of each run
    score_fn,         \* scoring: the function called, "idle" before the call
    score_args,       \* scoring: the arguments of the call
    score_result,     \* scoring: the value returned
    wpc,              \* where run_audit_background is, "idle" before it is called
    disposals         \* how many times the worker's engine has been disposed

dvars == <<brand_handle, brand_bio, is_mock_mode, total_count, method_order, method_idx, result,
           seen_usernames, outcomes, queried, dpc>>

pvars == <<pc, step, db, sess, profiles, discovery, existing, link_idx, ai_idx, exc,
           faults, status_log, work_started, work_returned, failed_step,
           step_start, fetches, absent, invocations>>

tvars == <<tag_handle, tag_bio, tag_result, tag_pc>>

rvars == <<store, runs>>

svars == <<score_fn, score_args, score_result>>

wvars == <<wpc, disposals>>

vars == <<dvars, pvars, tvars, rvars, svars, wvars>>

\* ------------------------------------------------- pipeline: the data
\* PIPELINE_STEPS
PIPELINE_STEPS ==
    <<[status |-> "scraping_brand", label |-> "Scraping brand profile", progress |-> 15],
      [status |-> "discovering_influencers",
       label |-> "Discovering associated influencers", progress |-> 30],
      [status |-> "analyzing_influencers",
       label |-> "Analyzing influencer profiles", progress |-> 55],
      [status |-> "scoring", label |-> "Calculating scores and metrics", progress |-> 75],
      [status |-> "generating_narrative",
       label |-> "Generating audit narrative", progress |-> 90],
      [status |-> "completed", label |-> "Audit complete", progress |-> 100]>>

\* The handle of the brand the audited run is about.
PipelineBrand == "nike"

\* The audit_id run_audit is called with.
PipelineAudit == "a1"

\* Usernames discovery reports during an audit run besides the brand.
AuditedNames == {"u1", "u2", "u3"}

\* Handles of the influencers that earlier audits stored, in the order
\* they were stored; "U1" differs from "u1" by case only.
KnownHandles == {<<>>, <<"u1">>, <<"U1">>, <<"u2", "U1">>}

\* Audit(brand_id=...): the column defaults of a row just created
NewAudit ==
    [status |-> "pending", progress |-> 0, current_step |-> NULL,
     error_message |-> NULL, health_score |-> None]

\* Influencer(instagram_handle=..., followers_count=...): a row not yet
\* scraped; id is the key the column default gives it
NewInfluencer(id, handle, followers_count) ==
    [id |-> id, instagram_handle |-> handle, followers_count |-> followers_count,
     scraped |-> FALSE]

\* the id of the next influencer row this creator adds: no two rows get
\* the same id
NextInfluencerId(rows, creator) ==
    <<creator, Cardinality({i \in 1..Len(rows) : rows[i].id[1] = creator}) + 1>>

\* variant: the join row is created without the candidate's source
NewAuditInfluencerNoSource(audit_id, influencer_id, source) ==
    [audit_id |-> audit_id, influencer_id |-> influencer_id, discovery_source |-> NULL,
     engagement |-> FALSE, scored |-> FALSE]

\* AuditInfluencer(audit_id, influencer_id, discovery_source): the metric
\* columns unset
NewAuditInfluencer(audit_id, influencer_id, source) ==
    [audit_id |-> audit_id, influencer_id |-> influencer_id, discovery_source |-> source,
     engagement |-> FALSE, scored |-> FALSE]

\* AudienceOverlap(audit_id, influencer_a_id, influencer_b_id, ...)
NewAudienceOverlap(audit_id, id_a, id_b) ==
    [audit_id |-> audit_id, influencer_a_id |-> id_a, influencer_b_id |-> id_b]

\* Storage as create_audit leaves it: the audit pending, its brand stored
\* and not scraped, no join or overlap rows; known lists the handles of the
\* influencers that earlier audits stored (instagram_handle is unique).
InitialStorage(known) ==
    [audit |-> NewAudit,
     brand |-> [scraped |-> FALSE],
     influencers |-> [i \in 1..Len(known) |-> NewInfluencer(<<"earlier", i>>, known[i], 500)],
     joins |-> <<>>,
     overlaps |-> <<>>]

\* one awaited call of scrape_brand_profile or scrape_influencer_profile:
\* whose profile, in which step, and whether it returned (ok) or raised
ProfileFetch(kind, handle, in_step, ok) ==
    [kind |-> kind, handle |-> handle, step |-> in_step, ok |-> ok]

\* "existing": the dict from handle to influencer before the bulk fetch
NoExisting == [h \in {} |-> NULL]

\* the influencer, join and overlap rows of a storage state
Records(s) == [influencers |-> s.influencers, joins |-> s.joins, overlaps |-> s.overlaps]

\* Texts of the errors the pipeline's collaborators raise.
NoProfileData == "No profile data returned"

StorageError == "storage call failed"

IntegrityError == "duplicate key value violates unique constraint"

\* str() of the NoResultFound that "result.scalar_one()" raises
NotFoundError == "No row was found when one was required"

\* The records run_audit looks up by id: the audit and the audit's brand.
ReferencedRecords == {"audit", "brand"}

\* ------------------------------------------------ discovery: the actions
\* discovery_methods: the three methods as the code lists them
DiscoveryMethods == SourceNames

PipelineStart(known, missing) ==
    /\ absent = missing
    /\ pc = "idle"
    /\ step = 1
    /\ db = InitialStorage(known)
    /\ sess = db
    /\ profiles = {}
    /\ discovery = <<>>
    /\ existing = NoExisting
    /\ link_idx = 1
    /\ ai_idx = 1
    /\ exc = NULL
    /\ faults = 0
    /\ status_log = <<>>
    /\ work_started = {}
    /\ work_returned = {}
    /\ failed_step = 0
    /\ step_start = Records(db)
    /\ fetches = <<>>
    /\ invocations = 0

\* run_audit has not been called; the audit and its brand are stored
PipelineIdle(known) == PipelineStart(known, {})

DiscoveryIdle ==
    /\ is_mock_mode = FALSE
    /\ total_count = 0
    /\ method_order = DiscoveryMethods
    /\ method_idx = 1
    /\ result = EmptyResult
    /\ seen_usernames = {}
    /\ outcomes = <<>>
    /\ queried = <<>>
    /\ dpc = "idle"

ExtractionIdle ==
    /\ tag_handle = <<>>
    /\ tag_bio = NoBio
    /\ tag_result = <<>>
    /\ tag_pc = "idle"

RunsIdle ==
    /\ store = [influencers |-> <<>>, joins |-> <<>>]
    /\ runs = <<>>

\* run_audit_background has not been called
WorkerIdle ==
    /\ wpc = "idle"
    /\ disposals = 0

ScoresIdle ==
    /\ score_fn = "idle"
    /\ score_args = <<>>
    /\ score_result = <<>>

InitDisc ==
    /\ ScoresIdle
    /\ WorkerIdle
    /\ \E brand \in BrandProfiles :
          /\ brand_handle = brand.handle
          /\ brand_bio = brand.bio
    /\ is_mock_mode \in BOOLEAN
    /\ total_count \in (IF is_mock_mode THEN MinTotalCount..MaxTotalCount ELSE {0})
    /\ method_order = DiscoveryMethods
    /\ method_idx = 1
    /\ result = EmptyResult
    /\ seen_usernames = {}
    /\ outcomes = <<>>
    /\ queried = <<>>
    /\ dpc = "running"
    /\ PipelineIdle(<<>>)
    /\ ExtractionIdle
    /\ RunsIdle

\* live mode: await one discovery method and merge what it did, the
\* provider behaving in one of the given ways
LivePassOver(provider) ==
    /\ dpc = "running" /\ ~is_mock_mode
    /\ method_idx <= Len(SourceNames)
    /\ \E o \in provider :
        LET done == Await(method_order[method_idx], o, brand_handle, brand_bio)
            st == DiscoveryPass([result |-> result, seen_usernames |-> seen_usernames],
                                method_order[method_idx], done, brand_handle)
        IN  /\ result' = st.result
            /\ seen_usernames' = st.seen_usernames
            /\ outcomes' = Append(outcomes, done)
            /\ queried' = queried \o done.queried
            /\ method_idx' = NextMethod(method_idx, done)
    /\ UNCHANGED <<brand_handle, brand_bio, is_mock_mode, total_count, method_order, dpc>>
    /\ UNCHANGED <<pvars, tvars, rvars, svars, wvars>>

LivePass == LivePassOver(RawOutcomes(brand_handle))

\* live mode: "return result"
LiveReturn ==
    /\ dpc = "running" /\ ~is_mock_mode
    /\ method_idx > Len(SourceNames)
    /\ dpc' = "returned"
    /\ UNCHANGED <<brand_handle, brand_bio, is_mock_mode, total_count, method_order, method_idx,
                   result, seen_usernames, outcomes, queried>>
    /\ UNCHANGED <<pvars, tvars, rvars, svars, wvars>>

\* mock mode: draw from one pool
MockDraw ==
    /\ dpc = "running" /\ is_mock_mode
    /\ method_idx <= Len(SourceNames)
    /\ LET source == SourceNames[method_idx]
           n == Len(Available(InfluencerPools(source), brand_handle, seen_usernames))
       IN  \E off \in 0..Max2(0, n - 1) :
            LET st == MockPass([result |-> result, seen_usernames |-> seen_usernames],
                               source, MockCounts(total_count)[method_idx],
                               brand_handle, off)
            IN  /\ result' = st.result
                /\ seen_usernames' = st.seen_usernames
    /\ method_idx' = method_idx + 1
    /\ UNCHANGED <<brand_handle, brand_bio, is_mock_mode, total_count, method_order, outcomes,
                   queried, dpc>>
    /\ UNCHANGED <<pvars, tvars, rvars, svars, wvars>>

\* mock mode: "return InfluencerDiscoveryResult(...)"
MockReturn ==
    /\ dpc = "running" /\ is_mock_mode
    /\ method_idx > Len(SourceNames)
    /\ result' = MockReturnValue(result.influencers)
    /\ dpc' = "returned"
    /\ UNCHANGED <<brand_handle, brand_bio, is_mock_mode, total_count, method_order, method_idx,
                   seen_usernames, outcomes, queried>>
    /\ UNCHANGED <<pvars, tvars, rvars, svars, wvars>>

NextDisc == LivePass \/ LiveReturn \/ MockDraw \/ MockReturn

SpecDisc == InitDisc /\ [][NextDisc]_vars

\* --------------------------------- discovery: the methods in any order
\* The orders the three methods can be listed in.
MethodOrders ==
    {o \in [1..Len(SourceNames) -> Range(SourceNames)] : Range(o) = Range(SourceNames)}

InitOrder ==
    /\ ScoresIdle
    /\ WorkerIdle
    /\ brand_handle \in {"nike", "ab"}
    /\ brand_bio = NoBio
    /\ is_mock_mode = FALSE
    /\ total_count = 0
    /\ method_order \in MethodOrders
    /\ method_idx = 1
    /\ result = EmptyResult
    /\ seen_usernames = {}
    /\ outcomes = <<>>
    /\ queried = <<>>
    /\ dpc = "running"
    /\ PipelineIdle(<<>>)
    /\ ExtractionIdle
    /\ RunsIdle

\* one pass of the loop with the methods listed as method_order says
ReorderedPass ==
    LivePassOver(RawOutcomesOver(OtherNames \cup {brand_handle}, MaxFoundReordered))

NextOrder == ReorderedPass \/ LiveReturn

SpecOrder == InitOrder /\ [][NextOrder]_vars

\* ------------------------------- discovery: the queries of the hashtags
\* What the query of one hashtag does: it yields items with these owner
\* names and ends, or raises after it has yielded them.
QueryOutcomes(names) == [ok : BOOLEAN, raw : SeqsUpTo(names, MaxQueryItems)]

InitQueries ==
    /\ ScoresIdle
    /\ WorkerIdle
    /\ \E brand \in BrandProfiles :
          /\ brand_handle = brand.handle
          /\ brand_bio = brand.bio
    /\ is_mock_mode = FALSE
    /\ total_count = 0
    /\ method_order = DiscoveryMethods
    /\ method_idx = 1
    /\ result = EmptyResult
    /\ seen_usernames = {}
    /\ outcomes = <<>>
    /\ queried = <<>>
    /\ dpc = "running"
    /\ PipelineIdle(<<>>)
    /\ ExtractionIdle
    /\ RunsIdle

\* one pass of the loop for the tagged or the related method
OtherPass ==
    /\ method_idx <= Len(SourceNames)
    /\ method_order[method_idx] # "hashtag_search"
    /\ LivePassOver(RawOutcomesOver(OtherNames, MaxQueryItems))

\* the pass of the loop for the hashtag method, the query of each hashtag
\* yielding items and ending or raising
HashtagsPass ==
    /\ dpc = "running" /\ ~is_mock_mode
    /\ method_idx <= Len(SourceNames)
    /\ method_order[method_idx] = "hashtag_search"
    /\ \E queries \in [1..Len(ExtractHashtags(HandleChars(brand_handle), brand_bio)) ->
                          QueryOutcomes(OtherNames \cup {brand_handle})] :
        LET done == AwaitHashtags(queries, brand_handle, brand_bio)
            st == DiscoveryPass([result |-> result, seen_usernames |-> seen_usernames],
                                "hashtag_search", done, brand_handle)
        IN  /\ result' = st.result
            /\ seen_usernames' = st.seen_usernames
            /\ outcomes' = Append(outcomes, done)
            /\ queried' = queried \o done.queried
            /\ method_idx' = NextMethod(method_idx, done)
    /\ UNCHANGED <<brand_handle, brand_bio, is_mock_mode, total_count, method_order, dpc>>
    /\ UNCHANGED <<pvars, tvars, rvars, svars, wvars>>

NextQueries == OtherPass \/ HashtagsPass \/ LiveReturn

SpecQueries == InitQueries /\ [][NextQueries]_vars

\* ------------------------------------------------- hashtags: the actions
InitTags ==
    /\ ScoresIdle
    /\ WorkerIdle
    /\ tag_handle \in TagHandles
    /\ tag_bio \in TagBios
    /\ tag_result = <<>>
    /\ tag_pc = "called"
    /\ brand_handle = PipelineBrand
    /\ brand_bio = NoBio
    /\ DiscoveryIdle
    /\ PipelineIdle(<<>>)
    /\ RunsIdle

\* InstagramDataSource._extract_hashtags(handle, bio) returns
ExtractCall ==
    /\ tag_pc = "called"
    /\ tag_result' = ExtractHashtags(tag_handle, tag_bio)
    /\ tag_pc' = "returned"
    /\ UNCHANGED <<tag_handle, tag_bio>>
    /\ UNCHANGED <<dvars, pvars, rvars, svars, wvars>>

NextTags == ExtractCall

SpecTags == InitTags /\ [][NextTags]_vars

\* ---------------------------------------------- pipeline: the operators
\* variant: _update_status leaves the progress as it was
UpdateStatusValueKeepingProgress(s, status, progress, current_step, error_message) ==
    [s EXCEPT !.audit.status = status,
              !.audit.current_step = current_step,
              !.audit.error_message = IF error_message # NULL THEN error_message ELSE @]

\* variant: _update_status leaves the step label as it was
UpdateStatusValueKeepingStep(s, status, progress, current_step, error_message) ==
    [s EXCEPT !.audit.status = status,
              !.audit.progress = progress,
              !.audit.error_message = IF error_message # NULL THEN error_message ELSE @]

\* the assignments of _update_status; error_message is written only when given
UpdateStatusValue(s, status, progress, current_step, error_message) ==
    [s EXCEPT !.audit.status = status,
              !.audit.progress = progress,
              !.audit.current_step = current_step,
              !.audit.error_message = IF error_message # NULL THEN error_message ELSE @]

\* variant: the loop advances by two steps
AfterStepSkipping(i) ==
    IF i + 2 > Len(PIPELINE_STEPS)
    THEN [pc |-> "returned", step |-> i]
    ELSE [pc |-> "update_status", step |-> i + 2]

\* "for status, step_label, progress in PIPELINE_STEPS": where run_audit is
\* once the work of step i has returned
AfterStep(i) ==
    IF i + 1 > Len(PIPELINE_STEPS)
    THEN [pc |-> "returned", step |-> i]
    ELSE [pc |-> "update_status", step |-> i + 1]

\* variant: the exception is swallowed and the loop goes on
OnExceptionResuming(i) ==
    IF i + 1 > Len(PIPELINE_STEPS)
    THEN [pc |-> "handler", step |-> i]
    ELSE [pc |-> "update_status", step |-> i + 1]

\* variant: the handler of the step that raised is entered again
OnExceptionRetrying(i) == [pc |-> "work", step |-> i]

\* "except Exception as exc": an exception raised in step i leaves the loop
OnException(i) == [pc |-> "handler", step |-> i]

\* the row of the influencer table with this id
InfluencerRow(rows, id) == rows[CHOOSE i \in 1..Len(rows) : rows[i].id = id]

\* variant: the stored influencers are not looked up
BulkFetchNothing(rows, usernames) == NoExisting

\* "select(Influencer).where(Influencer.instagram_handle.in_(usernames))"
\* made into "{inf.instagram_handle: inf for inf in result.scalars()}"; a
\* later row of a handle replaces an earlier one
BulkFetchExisting(rows, usernames) ==
    [h \in {rows[i].instagram_handle : i \in 1..Len(rows)} \cap usernames |->
        LET last == CHOOSE i \in 1..Len(rows) :
                        /\ rows[i].instagram_handle = h
                        /\ \A j \in (i + 1)..Len(rows) : rows[j].instagram_handle # h
        IN  rows[last].id]

\* existing.get(discovered.username)
ExistingGet(dict, username) ==
    IF username \in DOMAIN dict THEN dict[username] ELSE NULL

\* "existing[discovered.username] = influencer"
ExistingPut(dict, username, id) ==
    [h \in DOMAIN dict \cup {username} |-> IF h = username THEN id ELSE dict[h]]

\* the unique index on instagram_handle: a flush that inserts a second row
\* of a handle raises
ViolatesUnique(rows, handle) ==
    \E i \in 1..Len(rows) : rows[i].instagram_handle = handle

\* _discover_influencers, one pass of "for discovered in discovery.influencers":
\* reuse the influencer found in existing or add one, then add the join row
LinkCandidate(s, dict, d, audit_id) ==
    LET found == ExistingGet(dict, d.username)
        id == IF found # NULL THEN found ELSE NextInfluencerId(s.influencers, audit_id)
        with_influencer ==
            IF found # NULL THEN s
            ELSE [s EXCEPT !.influencers =
                     Append(@, NewInfluencer(id, d.username, d.followers_count))]
    IN  [s |-> [with_influencer EXCEPT
                   !.joins = Append(@, NewAuditInfluencer(audit_id, id, d.discovery_source))],
         existing |-> IF found # NULL THEN dict ELSE ExistingPut(dict, d.username, id)]

\* "select(AuditInfluencer).where(AuditInfluencer.audit_id == audit_id)": the
\* positions of the audit's rows in the join table
AuditInfluencers(joins, audit_id) ==
    SelectSeq([i \in 1..Len(joins) |-> i], LAMBDA i : joins[i].audit_id = audit_id)

\* ai.influencer.instagram_handle
HandleOf(s, join) == InfluencerRow(s.influencers, join.influencer_id).instagram_handle

\* profile.followers_count of a scraped profile
ProfileFollowers(handle) == 5000

\* The profile scrape_influencer_profile returns for a handle: "u1" has
\* three dated posts, "u2" has none, any other handle one undated post
\* whose like count is hidden.
ScrapedProfile(handle) ==
    InfluencerProfileResult(
        Some(ProfileFollowers(handle)),
        IF handle = "u2" THEN None ELSE Some(100),
        CASE handle = "u1" ->
                <<PostData("image", 150, 100, 5, Some(0), <<"a", "b", "c", "d", "e">>),
                  PostData("video", 20, 104, 0, Some(7), <<>>),
                  PostData("carousel", 400, 300, 90, Some(14), <<"a">>)>>
          [] handle = "u2" -> <<>>
          [] OTHER -> <<PostData("image", 0, -1, 2, None, <<"b", "f">>)>>)

\* variant: the pass updates the influencer row only
AnalyzeRowWithoutMetrics(s, i) ==
    LET at == CHOOSE k \in 1..Len(s.influencers) :
                  s.influencers[k].id = s.joins[i].influencer_id
    IN  [s EXCEPT !.influencers[at].scraped = TRUE]

\* _analyze_influencers, one pass of "for ai in audit_influencers" whose
\* profile fetch returned: the influencer row and the join row i are updated
AnalyzeRow(s, i) ==
    LET at == CHOOSE k \in 1..Len(s.influencers) :
                  s.influencers[k].id = s.joins[i].influencer_id
    IN  [s EXCEPT !.influencers[at].scraped = TRUE,
                  !.influencers[at].followers_count =
                      ProfileFollowers(s.influencers[at].instagram_handle),
                  !.joins[i].engagement = TRUE]

\* _calculate_scores: the join rows after "for ai in audit_influencers",
\* rows without a cached profile being skipped
ScoreRows(s, audit_id, cached) ==
    [i \in 1..Len(s.joins) |->
        IF s.joins[i].audit_id = audit_id /\ HandleOf(s, s.joins[i]) \in cached
        THEN [s.joins[i] EXCEPT !.scored = TRUE]
        ELSE s.joins[i]]

\* variant: every linked influencer is listed, cached or not
HandlesAndIdsOfAll(s, audit_id, cached) ==
    LET ais == AuditInfluencers(s.joins, audit_id)
    IN  [k \in 1..Len(ais) |->
            [handle |-> HandleOf(s, s.joins[ais[k]]), id |-> s.joins[ais[k]].influencer_id]]

\* handles_and_ids: the linked influencers that have a cached profile
HandlesAndIds(s, audit_id, cached) ==
    LET ais == AuditInfluencers(s.joins, audit_id)
        kept == SelectSeq(ais, LAMBDA i : HandleOf(s, s.joins[i]) \in cached)
    IN  [k \in 1..Len(kept) |->
            [handle |-> HandleOf(s, s.joins[kept[k]]), id |-> s.joins[kept[k]].influencer_id]]

\* variant: every ordered pair of two entries
Permutations2(l) ==
    LET idx == SelectSeq([k \in 1..(Len(l) * Len(l)) |-> k],
                         LAMBDA k : (k - 1) \div Len(l) # (k - 1) % Len(l))
    IN  [k \in 1..Len(idx) |->
            <<l[((idx[k] - 1) \div Len(l)) + 1], l[((idx[k] - 1) % Len(l)) + 1]>>]

RECURSIVE Combinations2(_)
\* itertools.combinations(l, 2)
Combinations2(l) ==
    IF Len(l) < 2 THEN <<>>
    ELSE [k \in 1..(Len(l) - 1) |-> <<l[1], l[k + 1]>>] \o Combinations2(Tail(l))

\* the AudienceOverlap rows added, one per pair of handles_and_ids
OverlapRows(s, audit_id, cached) ==
    LET pairs == Combinations2(HandlesAndIds(s, audit_id, cached))
    IN  [k \in 1..Len(pairs) |->
            NewAudienceOverlap(audit_id, pairs[k][1].id, pairs[k][2].id)]

\* _calculate_scores, the bundle one pass of "for ai in audit_influencers"
\* appends to health_inputs: "ai.engagement_rate or 0.0" and the averages
\* are what analysis stored in the join row, if it stored any
HealthInput(profile, analyzed) ==
    LET metrics == CalculateEngagementMetrics(profile)
        engagement_rate == IF analyzed THEN metrics.engagement_rate ELSE 0
        avg_likes == IF analyzed THEN metrics.avg_likes ELSE 0
        avg_comments == IF analyzed THEN metrics.avg_comments ELSE 0
        fraud == CalculateFraudScore(profile, engagement_rate, avg_likes, avg_comments)
        content == CalculateContentQuality(profile)
        audience == CalculateAudienceQuality(profile, engagement_rate, fraud.fraud_score)
    IN  [fraud_score |-> fraud.fraud_score,
         content_quality_score |-> content.content_quality_score,
         audience_quality_score |-> audience.audience_quality_score,
         engagement_rate |-> engagement_rate]

\* health_inputs: one bundle per linked influencer that has a cached profile
HealthInputs(s, audit_id, cached) ==
    LET ais == AuditInfluencers(s.joins, audit_id)
        kept == SelectSeq(ais, LAMBDA i : HandleOf(s, s.joins[i]) \in cached)
    IN  [k \in 1..Len(kept) |->
            HealthInput(ScrapedProfile(HandleOf(s, s.joins[kept[k]])),
                        s.joins[kept[k]].engagement)]

\* _calculate_scores up to its commit
ScoredStorage(s, audit_id, cached) ==
    [s EXCEPT !.joins = ScoreRows(s, audit_id, cached),
              !.overlaps = @ \o OverlapRows(s, audit_id, cached),
              !.audit.health_score =
                  Some(CalculateHealthScore(HealthInputs(s, audit_id, cached)))]

\* ------------------------------------------------ pipeline: the actions
Init ==
    /\ ScoresIdle
    /\ WorkerIdle
    /\ brand_handle = PipelineBrand
    /\ brand_bio = NoBio
    /\ DiscoveryIdle
    /\ \E known \in KnownHandles, missing \in SUBSET ReferencedRecords :
          PipelineStart(known, missing)
    /\ ExtractionIdle
    /\ RunsIdle

\* the handler of step `step` has returned
Returns ==
    /\ work_returned' = work_returned \cup {step}
    /\ pc' = AfterStep(step).pc
    /\ step' = AfterStep(step).step
    /\ UNCHANGED <<exc, failed_step>>

\* an exception with this text is raised inside the try block
Raises(text) ==
    /\ exc' = text
    /\ failed_step' = step
    /\ pc' = OnException(step).pc
    /\ step' = OnException(step).step
    /\ UNCHANGED work_returned

\* the handler of step `step` goes on at label
Continues(label) ==
    /\ pc' = label
    /\ UNCHANGED <<step, exc, failed_step, work_returned>>

\* "await self.db.commit()" returned: the session's writes are stored
Commits(s) == db' = s /\ sess' = s /\ UNCHANGED faults

\* writes that stay in the session until a commit
Writes(s) == sess' = s /\ UNCHANGED <<db, faults>>

\* a storage call (execute, flush or commit) raised: the transaction is
\* rolled back and the session's uncommitted writes are gone
StorageFails ==
    /\ faults < MaxFaults
    /\ faults' = faults + 1
    /\ sess' = db
    /\ UNCHANGED db

NoStorage == UNCHANGED <<db, sess, faults>>

\* run_audit has returned or raised
RunEnded == pc \in {"returned", "raised"}

\* run_audit is called
RunAudit ==
    /\ pc = "idle" /\ dpc = "idle"
    /\ pc' = "update_status"
    /\ step' = 1
    /\ invocations' = invocations + 1
    /\ UNCHANGED <<db, sess, profiles, discovery, existing, link_idx, ai_idx, exc, faults,
                   status_log, work_started, work_returned, failed_step, step_start>>
    /\ UNCHANGED fetches
    /\ UNCHANGED <<absent, dvars, tvars, rvars, svars, wvars>>

\* "await self._update_status(audit_id, status, progress, step_label)"
UpdateStatus ==
    /\ pc = "update_status"
    /\ \/ LET s == UpdateStatusValue(sess, PIPELINE_STEPS[step].status,
                                     PIPELINE_STEPS[step].progress,
                                     PIPELINE_STEPS[step].label, NULL)
          IN  /\ "audit" \notin absent
              /\ Commits(s)
              /\ status_log' = Append(status_log, PIPELINE_STEPS[step].status)
              /\ step_start' = Records(s)
              /\ Continues("work")
       \/ /\ "audit" \in absent
          /\ NoStorage
          /\ Raises(NotFoundError)
          /\ step_start' = Records(db)
          /\ UNCHANGED status_log
       \/ /\ StorageFails
          /\ Raises(StorageError)
          /\ step_start' = Records(db)
          /\ UNCHANGED status_log
    /\ UNCHANGED <<profiles, discovery, existing, link_idx, ai_idx, work_started>>
    /\ UNCHANGED fetches
    /\ UNCHANGED <<absent, invocations, dvars, tvars, rvars, svars, wvars>>

\* _scrape_brand: the audit and the brand are read, the brand profile is
\* fetched and written, and the session commits; a lookup that finds no row,
\* the fetch, or a storage call before or after the fetch may raise
ScrapeBrand ==
    /\ pc = "work" /\ PIPELINE_STEPS[step].status = "scraping_brand"
    /\ work_started' = work_started \cup {step}
    /\ \/ /\ absent = {}
          /\ Commits([sess EXCEPT !.brand.scraped = TRUE])
          /\ fetches' = Append(fetches, ProfileFetch("brand", brand_handle, step, TRUE))
          /\ Returns
       \/ /\ absent = {}
          /\ NoStorage
          /\ fetches' = Append(fetches, ProfileFetch("brand", brand_handle, step, FALSE))
          /\ Raises(NoProfileData)
       \/ /\ absent # {}
          /\ NoStorage
          /\ UNCHANGED fetches
          /\ Raises(NotFoundError)
       \/ /\ StorageFails
          /\ \/ UNCHANGED fetches
             \/ /\ absent = {}
                /\ fetches' = Append(fetches, ProfileFetch("brand", brand_handle, step, TRUE))
          /\ Raises(StorageError)
    /\ UNCHANGED <<profiles, discovery, existing, link_idx, ai_idx, status_log, step_start>>
    /\ UNCHANGED <<absent, invocations, dvars, tvars, rvars, svars, wvars>>

\* What the provider does for the three methods during an audit run.
AuditedOutcomes ==
    [1..Len(SourceNames) ->
        RawOutcomesOver(AuditedNames \cup {brand_handle}, MaxFoundAudited)]

\* _discover_influencers up to its loop: the aggregator is awaited (it does
\* not raise) and the stored influencers of the found handles are fetched
DiscoverCall ==
    /\ pc = "work" /\ PIPELINE_STEPS[step].status = "discovering_influencers"
    /\ work_started' = work_started \cup {step}
    /\ \/ /\ absent = {}
          /\ \E outs \in AuditedOutcomes :
                discovery' = DiscoverInfluencersLive(brand_handle, brand_bio, outs).influencers
          /\ existing' = BulkFetchExisting(sess.influencers,
                                           {discovery'[i].username : i \in 1..Len(discovery')})
          /\ link_idx' = 1
          /\ NoStorage
          /\ Continues("linking")
       \/ /\ absent # {}
          /\ NoStorage
          /\ Raises(NotFoundError)
          /\ UNCHANGED <<discovery, existing, link_idx>>
       \/ /\ StorageFails
          /\ Raises(StorageError)
          /\ UNCHANGED <<discovery, existing, link_idx>>
    /\ UNCHANGED <<profiles, ai_idx, status_log, step_start>>
    /\ UNCHANGED fetches
    /\ UNCHANGED <<absent, invocations, dvars, tvars, rvars, svars, wvars>>

\* _discover_influencers, one pass of its loop; the flush of a new
\* influencer row may raise
DiscoverLink ==
    /\ pc = "linking" /\ link_idx <= Len(discovery)
    /\ \/ /\ ExistingGet(existing, discovery[link_idx].username) = NULL =>
                ~ViolatesUnique(sess.influencers, discovery[link_idx].username)
          /\ LET linked == LinkCandidate(sess, existing, discovery[link_idx], PipelineAudit)
             IN  Writes(linked.s) /\ existing' = linked.existing
          /\ link_idx' = link_idx + 1
          /\ Continues("linking")
       \/ /\ ExistingGet(existing, discovery[link_idx].username) = NULL
          /\ StorageFails
          /\ Raises(StorageError)
          /\ UNCHANGED <<existing, link_idx>>
       \/ /\ ExistingGet(existing, discovery[link_idx].username) = NULL
          /\ ViolatesUnique(sess.influencers, discovery[link_idx].username)
          /\ sess' = db
          /\ UNCHANGED <<db, faults>>
          /\ Raises(IntegrityError)
          /\ UNCHANGED <<existing, link_idx>>
    /\ UNCHANGED <<profiles, discovery, ai_idx, status_log, work_started, step_start>>
    /\ UNCHANGED fetches
    /\ UNCHANGED <<absent, invocations, dvars, tvars, rvars, svars, wvars>>

\* _discover_influencers, the commit after its loop
DiscoverCommit ==
    /\ pc = "linking" /\ link_idx > Len(discovery)
    /\ \/ Commits(sess) /\ Returns
       \/ StorageFails /\ Raises(StorageError)
    /\ UNCHANGED <<profiles, discovery, existing, link_idx, ai_idx, status_log, work_started,
                   step_start>>
    /\ UNCHANGED fetches
    /\ UNCHANGED <<absent, invocations, dvars, tvars, rvars, svars, wvars>>

\* _analyze_influencers up to its loop: the join rows of the audit are fetched
AnalyzeQuery ==
    /\ pc = "work" /\ PIPELINE_STEPS[step].status = "analyzing_influencers"
    /\ work_started' = work_started \cup {step}
    /\ \/ NoStorage /\ ai_idx' = 1 /\ Continues("analyzing")
       \/ StorageFails /\ Raises(StorageError) /\ UNCHANGED ai_idx
    /\ UNCHANGED <<profiles, discovery, existing, link_idx, status_log, step_start>>
    /\ UNCHANGED fetches
    /\ UNCHANGED <<absent, invocations, dvars, tvars, rvars, svars, wvars>>

\* variant: a fetch that raises is skipped and the loop goes on
AnalyzeOneSkippingFailures ==
    /\ pc = "analyzing" /\ ai_idx <= Len(AuditInfluencers(sess.joins, PipelineAudit))
    /\ LET i == AuditInfluencers(sess.joins, PipelineAudit)[ai_idx]
           handle == HandleOf(sess, sess.joins[i])
       IN  \/ /\ fetches' = Append(fetches, ProfileFetch("influencer", handle, step, TRUE))
              /\ profiles' = profiles \cup {handle}
              /\ Writes(AnalyzeRow(sess, i))
           \/ /\ fetches' = Append(fetches, ProfileFetch("influencer", handle, step, FALSE))
              /\ NoStorage
              /\ UNCHANGED profiles
    /\ ai_idx' = ai_idx + 1
    /\ Continues("analyzing")
    /\ UNCHANGED <<discovery, existing, link_idx, status_log, work_started, step_start>>
    /\ UNCHANGED <<absent, invocations, dvars, tvars, rvars, svars, wvars>>

\* _analyze_influencers, one pass of its loop: the profile fetch returns
\* and is cached, or raises
AnalyzeOne ==
    /\ pc = "analyzing" /\ ai_idx <= Len(AuditInfluencers(sess.joins, PipelineAudit))
    /\ LET i == AuditInfluencers(sess.joins, PipelineAudit)[ai_idx]
           handle == HandleOf(sess, sess.joins[i])
       IN  \/ /\ fetches' = Append(fetches, ProfileFetch("influencer", handle, step, TRUE))
              /\ profiles' = profiles \cup {handle}
              /\ Writes(AnalyzeRow(sess, i))
              /\ ai_idx' = ai_idx + 1
              /\ Continues("analyzing")
           \/ /\ fetches' = Append(fetches, ProfileFetch("influencer", handle, step, FALSE))
              /\ NoStorage
              /\ Raises(NoProfileData)
              /\ UNCHANGED <<profiles, ai_idx>>
    /\ UNCHANGED <<discovery, existing, link_idx, status_log, work_started, step_start>>
    /\ UNCHANGED <<absent, invocations, dvars, tvars, rvars, svars, wvars>>

\* _analyze_influencers, the commit after its loop
AnalyzeCommit ==
    /\ pc = "analyzing" /\ ai_idx > Len(AuditInfluencers(sess.joins, PipelineAudit))
    /\ \/ Commits(sess) /\ Returns
       \/ StorageFails /\ Raises(StorageError)
    /\ UNCHANGED <<profiles, discovery, existing, link_idx, ai_idx, status_log, work_started,
                   step_start>>
    /\ UNCHANGED fetches
    /\ UNCHANGED <<absent, invocations, dvars, tvars, rvars, svars, wvars>>

\* _calculate_scores: the scores, overlaps and health score are written and
\* committed, then the cache is cleared; or a storage call raises before that
CalculateScores ==
    /\ pc = "work" /\ PIPELINE_STEPS[step].status = "scoring"
    /\ work_started' = work_started \cup {step}
    /\ \/ /\ "audit" \notin absent
          /\ Commits(ScoredStorage(sess, PipelineAudit, profiles))
          /\ profiles' = {}
          /\ Returns
       \/ /\ "audit" \in absent
          /\ NoStorage
          /\ Raises(NotFoundError)
          /\ UNCHANGED profiles
       \/ /\ StorageFails
          /\ Raises(StorageError)
          /\ UNCHANGED profiles
    /\ UNCHANGED <<discovery, existing, link_idx, ai_idx, status_log, step_start>>
    /\ UNCHANGED fetches
    /\ UNCHANGED <<absent, invocations, dvars, tvars, rvars, svars, wvars>>

\* _generate_narrative: a stub
GenerateNarrative ==
    /\ pc = "work" /\ PIPELINE_STEPS[step].status = "generating_narrative"
    /\ work_started' = work_started \cup {step}
    /\ NoStorage
    /\ Returns
    /\ UNCHANGED <<profiles, discovery, existing, link_idx, ai_idx, status_log, step_start>>
    /\ UNCHANGED fetches
    /\ UNCHANGED <<absent, invocations, dvars, tvars, rvars, svars, wvars>>

\* variant: something after the last status update raises
LoopEndRaising ==
    /\ pc = "work" /\ PIPELINE_STEPS[step].status = "completed"
    /\ NoStorage
    /\ Raises("logging failed")
    /\ UNCHANGED <<profiles, discovery, existing, link_idx, ai_idx, status_log, work_started,
                   step_start>>
    /\ UNCHANGED fetches
    /\ UNCHANGED <<absent, invocations, dvars, tvars, rvars, svars, wvars>>

\* status "completed" has no handler: the loop ends and run_audit returns
LoopEnd ==
    /\ pc = "work" /\ PIPELINE_STEPS[step].status = "completed"
    /\ NoStorage
    /\ pc' = AfterStep(step).pc
    /\ step' = AfterStep(step).step
    /\ UNCHANGED <<exc, failed_step, work_returned>>
    /\ UNCHANGED <<profiles, discovery, existing, link_idx, ai_idx, status_log, work_started,
                   step_start>>
    /\ UNCHANGED fetches
    /\ UNCHANGED <<absent, invocations, dvars, tvars, rvars, svars, wvars>>

\* the except clause of run_audit: _update_status(audit_id, "failed",
\* progress=0, current_step=None, error_message=str(exc)); if that raises,
\* run_audit raises
HandleFailure ==
    /\ pc = "handler"
    /\ \/ /\ "audit" \notin absent
          /\ Commits(UpdateStatusValue(sess, "failed", 0, NULL, exc))
          /\ status_log' = Append(status_log, "failed")
          /\ pc' = "returned"
       \/ /\ "audit" \in absent
          /\ NoStorage
          /\ pc' = "raised"
          /\ UNCHANGED status_log
       \/ /\ StorageFails
          /\ pc' = "raised"
          /\ UNCHANGED status_log
    /\ UNCHANGED <<step, exc, failed_step, work_returned>>
    /\ UNCHANGED <<profiles, discovery, existing, link_idx, ai_idx, work_started, step_start>>
    /\ UNCHANGED fetches
    /\ UNCHANGED <<absent, invocations, dvars, tvars, rvars, svars, wvars>>

Next ==
    \/ RunAudit
    \/ UpdateStatus
    \/ ScrapeBrand
    \/ DiscoverCall
    \/ DiscoverLink
    \/ DiscoverCommit
    \/ AnalyzeQuery
    \/ AnalyzeOne
    \/ AnalyzeCommit
    \/ CalculateScores
    \/ GenerateNarrative
    \/ LoopEnd
    \/ HandleFailure

Spec == Init /\ [][Next]_vars

\* ---------------------------------------------------- worker: the actions
\* variant: the except clause of the worker lets the exception through
AfterExceptReraising == "finally_raising"

\* "except Exception: logger.exception(...)": the exception ends there and
\* the finally clause runs next
AfterExcept == "finally"

\* run_audit_background is called: the engine and the session factory are
\* created, a session is opened and the orchestrator is built on it
WorkerStart ==
    /\ wpc = "idle" /\ pc = "idle"
    /\ wpc' = "session"
    /\ UNCHANGED <<disposals, dvars, pvars, tvars, rvars, svars>>

\* "await orchestrator.run_audit(audit_id)" and the steps of run_audit
WorkerRunAudit ==
    /\ wpc = "session"
    /\ Next

\* leaving "async with session_factory() as session" once run_audit has
\* returned or raised: the session is closed, which may raise as well
SessionExit ==
    /\ wpc = "session" /\ RunEnded
    /\ \/ /\ pc = "returned"
          /\ wpc' = "finally"
          /\ UNCHANGED <<sess, faults>>
       \/ /\ pc = "raised"
          /\ wpc' = "except"
          /\ UNCHANGED <<sess, faults>>
       \/ /\ faults < MaxFaults
          /\ faults' = faults + 1
          /\ sess' = db
          /\ wpc' = "except"
    /\ UNCHANGED <<pc, step, db, profiles, discovery, existing, link_idx, ai_idx, exc,
                   status_log, work_started, work_returned, failed_step, step_start,
                   fetches, absent, invocations>>
    /\ UNCHANGED <<disposals, dvars, tvars, rvars, svars>>

\* the except clause of the worker
WorkerExcept ==
    /\ wpc = "except"
    /\ wpc' = AfterExcept
    /\ UNCHANGED <<disposals, dvars, pvars, tvars, rvars, svars>>

\* "finally: await engine.dispose()", after which the worker returns, or
\* raises the exception that is still under way
WorkerFinally ==
    /\ wpc \in {"finally", "finally_raising"}
    /\ disposals' = disposals + 1
    /\ wpc' = IF wpc = "finally" THEN "returned" ELSE "raised"
    /\ UNCHANGED <<dvars, pvars, tvars, rvars, svars>>

NextWorker ==
    \/ WorkerStart
    \/ WorkerRunAudit
    \/ SessionExit
    \/ WorkerExcept
    \/ WorkerFinally

SpecWorker == Init /\ [][NextWorker]_vars

\* ------------------------------------- pipeline: run_audit called again
\* run_audit is called for the same audit id after an earlier call has
\* ended, with a new session, on the same orchestrator or on a new one
RunAuditAgain ==
    /\ RunEnded /\ dpc = "idle"
    /\ invocations < MaxInvocations
    /\ invocations' = invocations + 1
    /\ pc' = "update_status"
    /\ step' = 1
    /\ sess' = db
    /\ profiles' \in {profiles, {}}
    /\ discovery' = <<>>
    /\ existing' = NoExisting
    /\ link_idx' = 1
    /\ ai_idx' = 1
    /\ exc' = NULL
    /\ status_log' = <<>>
    /\ work_started' = {}
    /\ work_returned' = {}
    /\ failed_step' = 0
    /\ step_start' = Records(db)
    /\ fetches' = <<>>
    /\ UNCHANGED <<db, faults, absent, dvars, tvars, rvars, svars, wvars>>

\* the audit and its brand are stored, no influencer is
InitAgain ==
    /\ ScoresIdle
    /\ WorkerIdle
    /\ brand_handle = PipelineBrand
    /\ brand_bio = NoBio
    /\ DiscoveryIdle
    /\ PipelineIdle(<<>>)
    /\ ExtractionIdle
    /\ RunsIdle

NextAgain == Next \/ RunAuditAgain

SpecAgain == InitAgain /\ [][NextAgain]_vars

\* ------------------------------------- pipeline: scoring on its own
RECURSIVE LinkAll(_, _, _, _)
\* the whole loop of _discover_influencers
LinkAll(s, dict, ds, audit_id) ==
    IF ds = <<>> THEN [s |-> s, existing |-> dict]
    ELSE LET linked == LinkCandidate(s, dict, Head(ds), audit_id)
         IN  LinkAll(linked.s, linked.existing, Tail(ds), audit_id)

RECURSIVE AnalyzeCached(_, _, _)
\* the passes of _analyze_influencers over the join rows from position i
\* on whose profile is in cached
AnalyzeCached(s, i, cached) ==
    IF i > Len(s.joins) THEN s
    ELSE IF HandleOf(s, s.joins[i]) \in cached
         THEN AnalyzeCached(AnalyzeRow(s, i), i + 1, cached)
         ELSE AnalyzeCached(s, i + 1, cached)

\* Candidate lists: distinct names, as the tagged-posts method reports them.
CandidateListsOver(usernames) ==
    {[i \in 1..Len(names) |->
         DiscoveredInfluencer(names[i], ItemFollowers("tagged_posts", i), "tagged_posts",
                              TaggedContext(PipelineBrand))] :
       names \in {l \in SeqsUpTo(usernames, Cardinality(usernames)) :
                     Cardinality(Range(l)) = Len(l)}}

CandidateLists == CandidateListsOver(AuditedNames)

\* _calculate_scores is entered with the audit's influencers linked and
\* the profiles of any of them in the cache of the orchestrator
InitScoring ==
    /\ ScoresIdle
    /\ WorkerIdle
    /\ brand_handle = PipelineBrand
    /\ brand_bio = NoBio
    /\ DiscoveryIdle
    /\ ExtractionIdle
    /\ RunsIdle
    /\ discovery \in CandidateLists
    /\ profiles \in SUBSET {discovery[i].username : i \in 1..Len(discovery)}
    /\ LET linked == LinkAll([InitialStorage(<<>>) EXCEPT !.brand.scraped = TRUE],
                             NoExisting, discovery, PipelineAudit)
           analyzed == AnalyzeCached(linked.s, 1, profiles)
       IN  /\ db = UpdateStatusValue(analyzed, PIPELINE_STEPS[4].status,
                                     PIPELINE_STEPS[4].progress, PIPELINE_STEPS[4].label, NULL)
           /\ existing = linked.existing
    /\ sess = db
    /\ absent = {}
    /\ invocations = 1
    /\ pc = "work"
    /\ step = 4
    /\ link_idx = Len(discovery) + 1
    /\ ai_idx = Len(discovery) + 1
    /\ exc = NULL
    /\ faults = 0
    /\ status_log = [i \in 1..4 |-> PIPELINE_STEPS[i].status]
    /\ work_started = 1..3
    /\ work_returned = 1..3
    /\ failed_step = 0
    /\ step_start = Records(db)
    /\ fetches = <<>>

NextScoring ==
    \/ CalculateScores
    \/ UpdateStatus
    \/ GenerateNarrative
    \/ LoopEnd
    \/ HandleFailure

SpecScoring == InitScoring /\ [][NextScoring]_vars

\* ------------------------------- pipeline: two runs discovering at once
\* The audit ids of two runs; each run has its own session and orchestrator.
Runs == {"a1", "a2"}

OtherRun(r) == CHOOSE o \in Runs : o # r

\* a run before its discovery step
NewRun ==
    [pc |-> "start", discovery |-> <<>>, existing |-> NoExisting, link_idx |-> 1,
     new_influencers |-> <<>>, new_joins |-> <<>>, exc |-> NULL, began_after |-> {}]

\* what the session of run r holds: the committed rows and its own
\* uncommitted ones
SessionOf(r) ==
    [influencers |-> store.influencers \o runs[r].new_influencers,
     joins |-> store.joins \o runs[r].new_joins]

\* the flush of run r inserts a handle that the open transaction of the
\* other run has inserted: the insert waits for that transaction to end
WaitsForOther(r) ==
    /\ runs[r].pc = "linking" /\ runs[r].link_idx <= Len(runs[r].discovery)
    /\ LET d == runs[r].discovery[runs[r].link_idx]
       IN  /\ ExistingGet(runs[r].existing, d.username) = NULL
           /\ ViolatesUnique(runs[OtherRun(r)].new_influencers, d.username)

DeadlockError == "deadlock detected"

InitRuns ==
    /\ ScoresIdle
    /\ WorkerIdle
    /\ brand_handle = PipelineBrand
    /\ brand_bio = NoBio
    /\ DiscoveryIdle
    /\ PipelineIdle(<<>>)
    /\ ExtractionIdle
    /\ \E known \in {<<>>, <<"u2">>} :
          store = [influencers |-> InitialStorage(known).influencers, joins |-> <<>>]
    /\ runs = [r \in Runs |-> NewRun]

\* run r: _discover_influencers up to its loop
RunDiscover(r) ==
    /\ runs[r].pc = "start"
    /\ \E ds \in CandidateListsOver(OtherNames) :
          runs' = [runs EXCEPT ![r] =
                      [@ EXCEPT !.pc = "linking",
                                !.discovery = ds,
                                !.existing = BulkFetchExisting(
                                    store.influencers,
                                    {ds[i].username : i \in 1..Len(ds)}),
                                !.began_after = {o \in Runs : runs[o].pc = "done"}]]
    /\ UNCHANGED store
    /\ UNCHANGED <<dvars, pvars, tvars, svars, wvars>>

\* the session of run r is closed without a commit: its rows are gone
RunFailed(r, text) ==
    runs' = [runs EXCEPT ![r] =
                [@ EXCEPT !.pc = "failed", !.exc = text,
                          !.new_influencers = <<>>, !.new_joins = <<>>]]

\* run r: one pass of the loop of _discover_influencers
RunLink(r) ==
    /\ runs[r].pc = "linking" /\ runs[r].link_idx <= Len(runs[r].discovery)
    /\ LET d == runs[r].discovery[runs[r].link_idx]
           inserts == ExistingGet(runs[r].existing, d.username) = NULL
           linked == LinkCandidate(SessionOf(r), runs[r].existing, d, r)
       IN  IF inserts /\ ViolatesUnique(store.influencers, d.username)
           THEN RunFailed(r, IntegrityError)
           ELSE IF WaitsForOther(r)
           THEN WaitsForOther(OtherRun(r)) /\ RunFailed(r, DeadlockError)
           ELSE runs' = [runs EXCEPT ![r] =
                   [@ EXCEPT !.existing = linked.existing,
                             !.link_idx = @ + 1,
                             !.new_influencers =
                                 SubSeq(linked.s.influencers, Len(store.influencers) + 1,
                                        Len(linked.s.influencers)),
                             !.new_joins =
                                 SubSeq(linked.s.joins, Len(store.joins) + 1,
                                        Len(linked.s.joins))]]
    /\ UNCHANGED store
    /\ UNCHANGED <<dvars, pvars, tvars, svars, wvars>>

\* run r: the commit after the loop
RunCommit(r) ==
    /\ runs[r].pc = "linking" /\ runs[r].link_idx > Len(runs[r].discovery)
    /\ store' = SessionOf(r)
    /\ runs' = [runs EXCEPT ![r] =
                   [@ EXCEPT !.pc = "done", !.new_influencers = <<>>, !.new_joins = <<>>]]
    /\ UNCHANGED <<dvars, pvars, tvars, svars, wvars>>

NextRuns == \E r \in Runs : RunDiscover(r) \/ RunLink(r) \/ RunCommit(r)

SpecRuns == InitRuns /\ [][NextRuns]_vars

\* ------------------------------------------------- scoring: the actions
InitScores ==
    /\ brand_handle = PipelineBrand
    /\ brand_bio = NoBio
    /\ DiscoveryIdle
    /\ PipelineIdle(<<>>)
    /\ ExtractionIdle
    /\ RunsIdle
    /\ ScoresIdle
    /\ WorkerIdle

\* a scoring function is called with these arguments and returns this value
ScoreCall(fn, args, value) ==
    /\ score_fn' = fn
    /\ score_args' = args
    /\ score_result' = value
    /\ UNCHANGED <<dvars, pvars, tvars, rvars, wvars>>

EngagementCall ==
    /\ score_fn = "idle"
    /\ \E profile \in ScoredProfiles :
           ScoreCall("calculate_engagement_metrics", <<profile>>,
                     CalculateEngagementMetrics(profile))

FraudCall ==
    /\ score_fn = "idle"
    /\ \E profile \in ScoredProfiles, args \in FraudArguments :
           ScoreCall("calculate_fraud_score", <<profile, args[1], args[2], args[3]>>,
                     CalculateFraudScore(profile, args[1], args[2], args[3]))

ContentCall ==
    /\ score_fn = "idle"
    /\ \E profile \in ScoredProfiles :
           ScoreCall("calculate_content_quality", <<profile>>, CalculateContentQuality(profile))

AudienceCall ==
    /\ score_fn = "idle"
    /\ \E profile \in BareProfiles, engagement_rate \in EngagementRates,
          fraud_score \in ScoreValues :
           ScoreCall("calculate_audience_quality", <<profile, engagement_rate, fraud_score>>,
                     CalculateAudienceQuality(profile, engagement_rate, fraud_score))

ReachCall ==
    /\ score_fn = "idle"
    /\ \E followers \in ReachFollowers, engagement_rate \in EngagementRates,
          content_quality \in ScoreValues :
           ScoreCall("estimate_reach_and_cpm", <<followers, engagement_rate, content_quality>>,
                     EstimateReachAndCpm(followers, engagement_rate, content_quality))

OverlapCall ==
    /\ score_fn = "idle"
    /\ \E profile_a \in OverlapProfiles, profile_b \in OverlapProfiles :
           ScoreCall("estimate_audience_overlap", <<profile_a, profile_b>>,
                     EstimateAudienceOverlap(profile_a, profile_b))

HealthCall ==
    /\ score_fn = "idle"
    /\ \E influencer_scores \in SeqsUpTo(BundleSamples, MaxBundles) :
           ScoreCall("calculate_health_score", <<influencer_scores>>,
                     CalculateHealthScore(influencer_scores))

NextScores ==
    \/ EngagementCall
    \/ FraudCall
    \/ ContentCall
    \/ AudienceCall
    \/ ReachCall
    \/ OverlapCall
    \/ HealthCall

SpecScores == InitScores /\ [][NextScores]_vars

\* ------------------------------------------------- discovery: the claims
Usernames(r) == {r.influencers[i].username : i \in 1..Len(r.influencers)}

\* C7: in every discovery result the attempted sources are exactly the
\* succeeded ones together with the failed ones, and no source is both.
C7_AttemptedIsDisjointUnion ==
    dpc = "returned" =>
        /\ Range(result.sources_attempted) =
              Range(result.sources_succeeded) \cup Range(result.sources_failed)
        /\ Range(result.sources_succeeded) \cap Range(result.sources_failed) = {}
        /\ Len(result.sources_attempted) =
              Len(result.sources_succeeded) + Len(result.sources_failed)

C7_Witness ==
    /\ dpc = "returned" /\ ~is_mock_mode
    /\ result.sources_failed # <<>>
    /\ result.sources_succeeded # <<>>

\* C8: the returned candidate list never holds the brand's own handle and
\* holds no username twice, in live and in mock mode.
C8_NoBrandNoDuplicate ==
    dpc = "returned" =>
        /\ brand_handle \notin Usernames(result)
        /\ Cardinality(Usernames(result)) = Len(result.influencers)

C8_Witness ==
    /\ dpc = "returned" /\ ~is_mock_mode
    /\ \E i \in 1..Len(outcomes) : brand_handle \in Range(outcomes[i].raw)
    /\ \E i, j \in 1..Len(outcomes) :
          i # j /\ Range(outcomes[i].raw) \cap Range(outcomes[j].raw) \cap OtherNames # {}

\* C9: whatever methods raise, all three are attempted, the call returns,
\* and every candidate of a method that succeeded is in the result unless it
\* is the brand itself (duplicates being kept once).
C9_FailureNeverAborts ==
    dpc = "returned" =>
        /\ result.sources_attempted = SourceNames
        /\ ~is_mock_mode =>
              /\ Len(outcomes) = Len(SourceNames)
              /\ \A i \in 1..Len(outcomes) :
                    outcomes[i].ok =>
                        Range(outcomes[i].raw) \ {brand_handle} \subseteq Usernames(result)

C9_Witness ==
    /\ dpc = "returned" /\ ~is_mock_mode
    /\ ~outcomes[1].ok
    /\ outcomes[2].ok /\ Range(outcomes[2].raw) \ {brand_handle} # {}
    /\ ~outcomes[3].ok

\* C10: errors and sources_failed have the same length, the i-th error
\* starts with the name of the i-th failed source, and no error names a
\* source that succeeded.
C10_ErrorsMatchFailedSources ==
    dpc = "returned" =>
        /\ Len(result.errors) = Len(result.sources_failed)
        /\ \A i \in 1..Len(result.errors) :
              /\ Len(result.errors[i]) >= 1
              /\ result.errors[i][1] = result.sources_failed[i]
              /\ result.errors[i][1] \notin Range(result.sources_succeeded)

C10_Witness ==
    /\ dpc = "returned"
    /\ Len(result.sources_failed) >= 2
    /\ result.sources_succeeded # <<>>

\* the methods that returned, and the first position of a name in a list
Succeeded(i) == outcomes[i].ok

FirstAt(name, raw) == CHOOSE k \in 1..Len(raw) : raw[k] = name /\ \A j \in 1..(k - 1) : raw[j] # name

\* the context text the method at position i gives its candidates
ContextOf(i) ==
    CASE i = 1 -> <<"Tagged @", brand_handle, " in post">>
      [] i = 2 -> <<"Suggested profile from @", brand_handle>>
      [] i = 3 -> <<"Found via #", queried[1]>>

\* C11: a username that several methods found is kept once, with the
\* discovery source, follower count and context of its first occurrence in
\* the order tagged_posts, related_profiles, hashtag_search among the
\* methods that succeeded.
C11_FirstSourceWins ==
    (dpc = "returned" /\ ~is_mock_mode) =>
        \A c \in Range(result.influencers) :
            \E i \in 1..Len(outcomes) :
                /\ Succeeded(i) /\ c.username \in Range(outcomes[i].raw)
                /\ \A j \in 1..(i - 1) :
                      ~(Succeeded(j) /\ c.username \in Range(outcomes[j].raw))
                /\ c.discovery_source = SourceNames[i]
                /\ c.followers_count = 1000 * i + FirstAt(c.username, outcomes[i].raw)
                /\ c.discovery_context = ContextOf(i)
                /\ Cardinality({k \in 1..Len(result.influencers) :
                                   result.influencers[k].username = c.username}) = 1

\* the first method raised, the second received one name twice, and the
\* third received that name again
C11_Witness ==
    /\ dpc = "returned" /\ ~is_mock_mode
    /\ ~Succeeded(1) /\ Succeeded(2) /\ Succeeded(3)
    /\ \E name \in OtherNames :
          /\ Len(outcomes[2].raw) = 2
          /\ outcomes[2].raw[1] = name /\ outcomes[2].raw[2] = name
          /\ name \in Range(outcomes[3].raw)
          /\ name \in Usernames(result)

\* what the provider did for the method named source_name
OutcomeOf(source_name) ==
    outcomes[CHOOSE k \in 1..Len(outcomes) : method_order[k] = source_name]

\* the result of the three methods run in the code's order against the
\* same provider behaviour
InCodeOrder ==
    DiscoverInfluencersLive(brand_handle, brand_bio,
                            [i \in 1..Len(SourceNames) |-> OutcomeOf(SourceNames[i])])

\* C12: run in any order, the three methods give the same set of candidate
\* usernames, the same set of succeeded sources and the same set of failed
\* sources.
C12_OrderDoesNotMatter ==
    (dpc = "returned" /\ ~is_mock_mode) =>
        /\ Usernames(result) = Usernames(InCodeOrder)
        /\ Range(result.sources_succeeded) = Range(InCodeOrder.sources_succeeded)
        /\ Range(result.sources_failed) = Range(InCodeOrder.sources_failed)

\* the hashtag method ran first and the tagged method last, one method
\* raised, and the other two received the same name
C12_Witness ==
    /\ dpc = "returned" /\ ~is_mock_mode
    /\ method_order = <<"hashtag_search", "related_profiles", "tagged_posts">>
    /\ Len(result.sources_failed) = 1
    /\ \E i, j \in 1..Len(outcomes) :
          /\ i # j /\ outcomes[i].ok /\ outcomes[j].ok
          /\ Range(outcomes[i].raw) \cap Range(outcomes[j].raw) \cap OtherNames # {}
    /\ Len(result.influencers) = 1

\* every username of the three pools
PoolNames ==
    UNION {Range(InfluencerPools(SourceNames[i])) : i \in 1..Len(SourceNames)}

CandidatesFrom(r, source) ==
    {i \in 1..Len(r.influencers) : r.influencers[i].discovery_source = source}

\* whichever name of a pool the brand carries, and whatever total is drawn,
\* each pool still holds as many other names as are drawn from it
PoolsSuffice ==
    \A handle \in PoolNames \cup {"ab"}, total \in MinTotalCount..MaxTotalCount,
       i \in 1..Len(SourceNames) :
        /\ MockCounts(total)[i] >= 1
        /\ MockCounts(total)[i] <=
              Len(Available(InfluencerPools(SourceNames[i]), handle, PoolNames \
                              Range(InfluencerPools(SourceNames[i]))))

\* C31: for every brand handle, a pool username included, mock discovery
\* returns between 8 and 15 candidates with at least one from each of the
\* three sources, and reports all three sources as succeeded, none as
\* failed and no error.
C31_MockDiscoveryIsComplete ==
    /\ PoolsSuffice
    /\ (dpc = "returned" /\ is_mock_mode) =>
          /\ Len(result.influencers) \in MinTotalCount..MaxTotalCount
          /\ \A i \in 1..Len(SourceNames) :
                CandidatesFrom(result, SourceNames[i]) # {}
          /\ result.sources_attempted = SourceNames
          /\ result.sources_succeeded = SourceNames
          /\ result.sources_failed = <<>>
          /\ result.errors = <<>>

\* the brand is a name of the first pool, and the largest total was drawn
C31_Witness ==
    /\ dpc = "returned" /\ is_mock_mode
    /\ brand_handle \in Range(InfluencerPools("tagged_posts"))
    /\ total_count = MaxTotalCount
    /\ Len(result.influencers) = MaxTotalCount

\* what awaiting the hashtag method did, the third method of the loop
HashtagsDone == outcomes[Len(SourceNames)]

\* C38: a query of the hashtag method that raises does not fail the
\* method: hashtag_search is recorded as succeeded and never as failed, also
\* when the query of every extracted hashtag raises, and every owner that
\* the query of any hashtag yielded is among the candidates (the brand
\* itself excepted), a hashtag_search candidate carrying the first hashtag
\* whose query yielded it.
C38_QueryFailureIsContained ==
    dpc = "returned" =>
        /\ HashtagsDone.ok
        /\ "hashtag_search" \in Range(result.sources_succeeded)
        /\ "hashtag_search" \notin Range(result.sources_failed)
        /\ \A i \in 1..Len(result.errors) : result.errors[i][1] # "hashtag_search"
        /\ \A k \in 1..Len(HashtagsDone.queries) :
              Range(HashtagsDone.queries[k].raw) \ {brand_handle} \subseteq Usernames(result)
        /\ \A i \in CandidatesFrom(result, "hashtag_search") :
              \E k \in 1..Len(HashtagsDone.queries) :
                  /\ result.influencers[i].username \in Range(HashtagsDone.queries[k].raw)
                  /\ result.influencers[i].discovery_context =
                        HashtagContext(HashtagsDone.queried[k])
                  /\ \A j \in 1..(k - 1) :
                        result.influencers[i].username
                            \notin Range(HashtagsDone.queries[j].raw)

\* the queries of both hashtags raised, the second after it had yielded an
\* owner, who is a candidate
C38_Witness ==
    /\ dpc = "returned"
    /\ Len(HashtagsDone.queries) = 2
    /\ \A k \in 1..2 : ~HashtagsDone.queries[k].ok
    /\ HashtagsDone.queries[1].raw = <<>>
    /\ \E i \in CandidatesFrom(result, "hashtag_search") :
          /\ result.influencers[i].username \in Range(HashtagsDone.queries[2].raw)
          /\ result.influencers[i].discovery_context = HashtagContext(HashtagsDone.queried[2])

\* -------------------------------------------------- pipeline: the claims
StepStatuses == [i \in 1..Len(PIPELINE_STEPS) |-> PIPELINE_STEPS[i].status]

IsPrefix(s, t) == Len(s) <= Len(t) /\ \A i \in 1..Len(s) : s[i] = t[i]

\* C1: the statuses a run commits are a prefix of the six step statuses in
\* their order, optionally followed by one "failed" (none skipped, repeated
\* or revisited), the stored status is the last one committed, and a step's
\* handler is entered only after the handlers of all earlier steps returned.
C1_StatusesSequential ==
    /\ \/ IsPrefix(status_log, StepStatuses)
       \/ /\ status_log # <<>>
          /\ status_log[Len(status_log)] = "failed"
          /\ IsPrefix(SubSeq(status_log, 1, Len(status_log) - 1), StepStatuses)
    /\ db.audit.status =
          (IF status_log = <<>> THEN "pending" ELSE status_log[Len(status_log)])
    /\ \A j \in work_started : \A i \in 1..(j - 1) : i \in work_returned

C1_Witness ==
    /\ pc = "returned"
    /\ status_log = StepStatuses
    /\ Len(db.joins) = 2

\* C2: once the work of a step has raised and run_audit has ended, the
\* stored audit has status failed, progress 0, no current step and the
\* error's text as its error message.
C2_FailureIsRecorded ==
    (RunEnded /\ failed_step \in work_started) =>
        /\ db.audit.status = "failed"
        /\ db.audit.progress = 0
        /\ db.audit.current_step = NULL
        /\ db.audit.error_message = exc

\* C3: once step k has failed, no handler of a step after k is entered and
\* no status of a step after k is committed.
C3_NoStepAfterFailure ==
    failed_step # 0 =>
        /\ \A j \in work_started : j <= failed_step
        /\ \A i \in 1..Len(status_log) :
              \/ status_log[i] = "failed"
              \/ \E k \in 1..failed_step : status_log[i] = PIPELINE_STEPS[k].status

C3_Witness ==
    /\ pc = "returned"
    /\ failed_step = 3
    /\ exc = NoProfileData
    /\ db.audit.status = "failed"

\* C4: when run_audit has ended, by returning or by raising, the stored
\* status of the audit is completed or failed, whatever raised.
C4_RunEndsCompletedOrFailed ==
    RunEnded => db.audit.status \in {"completed", "failed"}

\* C5: when a run has been marked failed, the stored influencer, join and
\* overlap rows are those stored when the failing step began: no write the
\* step made before the error is stored.
C5_FailedStepWritesNothing ==
    (pc = "returned" /\ failed_step # 0 /\ db.audit.status = "failed") =>
        Records(db) = step_start

\* C6: when run_audit has ended, completed or failed, the profile cache of
\* the orchestrator is empty (so that no later run can read a profile this
\* run cached).
C6_CacheEmptyAfterRun ==
    RunEnded => profiles = {}

\* the rows of a table that satisfy a test, as the set of their positions
RowsWhere(rows, Test(_)) == {i \in 1..Len(rows) : Test(rows[i])}

\* C16: once the discovery step has committed, every discovered candidate
\* has exactly one join row of this audit, linked to the one influencer row
\* whose handle is exactly the candidate's username and carrying the
\* candidate's discovery source; an influencer stored before is reused, and
\* a new one holds the candidate's follower count.
C16_OneJoinPerCandidate ==
    (pc = "update_status" /\ step = 3) =>
        /\ Cardinality(RowsWhere(db.joins, LAMBDA j : j.audit_id = PipelineAudit))
              = Len(discovery)
        /\ \A k \in 1..Len(discovery) :
            LET c == discovery[k]
                same == RowsWhere(db.influencers, LAMBDA r : r.instagram_handle = c.username)
                before == RowsWhere(step_start.influencers,
                                    LAMBDA r : r.instagram_handle = c.username)
                links == RowsWhere(db.joins,
                            LAMBDA j : /\ j.audit_id = PipelineAudit
                                       /\ \E i \in same : db.influencers[i].id = j.influencer_id)
            IN  /\ Cardinality(same) = 1
                /\ Cardinality(links) = 1
                /\ \A i \in links : db.joins[i].discovery_source = c.discovery_source
                /\ \A i \in same :
                      IF before = {}
                      THEN db.influencers[i].followers_count = c.followers_count
                      ELSE \E b \in before : step_start.influencers[b] = db.influencers[i]

\* "u2" was stored before and is reused; "u1" is new although "U1" is stored
C16_Witness ==
    /\ pc = "update_status" /\ step = 3
    /\ {discovery[k].username : k \in 1..Len(discovery)} = {"u1", "u2"}
    /\ Len(step_start.influencers) = 2
    /\ Len(db.influencers) = 3
    /\ Len(db.joins) = 2

\* the join rows of the audit, and the influencers scoring had a cached
\* profile for (their join rows are the ones scoring wrote to)
JoinsOfAudit == {i \in 1..Len(db.joins) : db.joins[i].audit_id = PipelineAudit}

ScoredIds == {db.joins[i].influencer_id : i \in {j \in JoinsOfAudit : db.joins[j].scored}}

Ends(o) == {o.influencer_a_id, o.influencer_b_id}

\* C19: after scoring has succeeded the stored overlap estimates are one
\* per unordered pair of distinct linked influencers that both had a cached
\* profile: n(n-1)/2 of them, none of an influencer with itself, no pair in
\* both orders.
C19_OneOverlapPerPair ==
    4 \in work_returned =>
        LET n == Cardinality(ScoredIds) IN
        /\ 2 * Len(db.overlaps) = n * (n - 1)
        /\ \A k \in 1..Len(db.overlaps) :
              /\ db.overlaps[k].audit_id = PipelineAudit
              /\ db.overlaps[k].influencer_a_id # db.overlaps[k].influencer_b_id
              /\ Ends(db.overlaps[k]) \subseteq ScoredIds
              /\ \A l \in 1..Len(db.overlaps) :
                    Ends(db.overlaps[l]) = Ends(db.overlaps[k]) => l = k
        /\ \A a, b \in ScoredIds :
              a # b => \E k \in 1..Len(db.overlaps) : Ends(db.overlaps[k]) = {a, b}

\* three influencers were linked and analysed: three estimates
C19_Witness ==
    /\ 4 \in work_returned
    /\ Cardinality(ScoredIds) = 3
    /\ Len(db.overlaps) = 3

\* the linked influencers whose profile was not in the cache when scoring
\* was entered: the ones analysis never wrote to
Uncached == {i \in JoinsOfAudit : ~db.joins[i].engagement}

\* the bundles of the linked influencers analysis wrote to, in the order of
\* their join rows
BundlesOfAnalyzed ==
    LET kept == SelectSeq([i \in 1..Len(db.joins) |-> i],
                          LAMBDA i : i \in JoinsOfAudit \ Uncached)
    IN  [k \in 1..Len(kept) |->
            HealthInput(ScrapedProfile(HandleOf(db, db.joins[kept[k]])), TRUE)]

\* C20: scoring skips a linked influencer whose profile is not in the cache
\* and does not raise for it: its score fields stay unset, it is in no
\* overlap pair, it adds no bundle to the health score, and the run goes on
\* to generating_narrative.
C20_MissingProfileIsSkipped ==
    /\ failed_step = 4 => exc = StorageError
    /\ 4 \in work_returned =>
          /\ \A i \in Uncached :
                /\ ~db.joins[i].scored
                /\ \A k \in 1..Len(db.overlaps) :
                      db.joins[i].influencer_id \notin Ends(db.overlaps[k])
          /\ db.audit.health_score = Some(CalculateHealthScore(BundlesOfAnalyzed))
          /\ (pc = "update_status" /\ 5 \notin work_returned) =>
                PIPELINE_STEPS[step].status = "generating_narrative"
          /\ failed_step # 4

\* one of three linked influencers had no cached profile, and the run has
\* reached generating_narrative
C20_Witness ==
    /\ Cardinality(JoinsOfAudit) = 3
    /\ Cardinality(Uncached) = 1
    /\ 4 \in work_returned
    /\ Len(db.overlaps) = 1
    /\ db.audit.status = "generating_narrative"

\* the labels at which the handler of the current step is about to begin or
\* is under way
WorkLabels == {"work", "linking", "analyzing"}

\* what storage holds of the audit's status, progress and current step
StoredTriple ==
    [status |-> db.audit.status, progress |-> db.audit.progress,
     label |-> db.audit.current_step]

\* C21: whenever the work of a step is about to begin or is under way,
\* storage (not only the session) holds that step's status, its target
\* progress, one of 15, 30, 55, 75, 90, 100, and its label as current step.
C21_TripleStoredBeforeWork ==
    pc \in WorkLabels =>
        /\ StoredTriple = PIPELINE_STEPS[step]
        /\ <<step, db.audit.progress>> \in
              {<<1, 15>>, <<2, 30>>, <<3, 55>>, <<4, 75>>, <<5, 90>>, <<6, 100>>}
        /\ \A i \in work_started : i <= step

C21_Witness ==
    /\ pc = "analyzing"
    /\ ai_idx = 2
    /\ StoredTriple = PIPELINE_STEPS[3]
    /\ sess.joins # db.joins

\* the positions of the fetch history that satisfy a test
FetchesWhere(Test(_)) == {i \in 1..Len(fetches) : Test(fetches[i])}

\* the handles of the influencers linked to the audit in storage
LinkedToAudit ==
    {HandleOf(db, db.joins[i]) : i \in Range(AuditInfluencers(db.joins, PipelineAudit))}

\* C22: in a run that has completed, the brand profile was fetched once, in
\* the first step, and the profile of every linked influencer once, in the
\* analysis step, and nothing else was fetched; in every run no fetch is
\* made from the scoring step on, every handler is entered at most once,
\* and a fetch that raised is the last one of the run.
C22_FetchedOnceNeverRetried ==
    /\ (pc = "returned" /\ db.audit.status = "completed") =>
          /\ Cardinality(FetchesWhere(LAMBDA f : f.kind = "brand")) = 1
          /\ \A h \in LinkedToAudit :
                Cardinality(FetchesWhere(LAMBDA f : f.kind = "influencer" /\ f.handle = h)) = 1
          /\ Len(fetches) = 1 + Len(AuditInfluencers(db.joins, PipelineAudit))
          /\ \A i \in 1..Len(fetches) : fetches[i].ok
    /\ \A i \in 1..Len(fetches) :
          /\ fetches[i].kind = "brand" => PIPELINE_STEPS[fetches[i].step].status = "scraping_brand"
          /\ fetches[i].kind = "influencer" =>
                PIPELINE_STEPS[fetches[i].step].status = "analyzing_influencers"
          /\ ~fetches[i].ok => i = Len(fetches)
          /\ \A j \in 1..Len(fetches) :
                (fetches[i].kind = fetches[j].kind /\ fetches[i].handle = fetches[j].handle)
                    => i = j
    /\ failed_step # 0 => pc \in {"handler", "returned", "raised"}

C22_Witness ==
    /\ pc = "returned"
    /\ db.audit.status = "completed"
    /\ Cardinality(LinkedToAudit) = 2
    /\ Len(fetches) = 3
    /\ Len(db.overlaps) = 1

\* C23: when a lookup of the audit or of its brand found no row, run_audit
\* ends by raising that error to its caller.
C23_NotFoundIsRaised ==
    (RunEnded /\ exc = NotFoundError) => pc = "raised"

Triple(audit) == <<audit.status, audit.progress, audit.current_step>>

\* (pending, 0, null), (failed, 0, null) and, for each of the six steps,
\* (its status, its progress, its label)
AllowedTriples ==
    {<<"pending", 0, NULL>>, <<"failed", 0, NULL>>}
    \cup {<<PIPELINE_STEPS[i].status, PIPELINE_STEPS[i].progress, PIPELINE_STEPS[i].label>> :
            i \in 1..Len(PIPELINE_STEPS)}

\* C32: in every persisted state of a run the triple (status, progress,
\* current_step) is (pending, 0, null), (failed, 0, null) or the triple of
\* one of the six steps, and so is the triple the session holds before its
\* next commit.
C32_TripleIsAllowed ==
    /\ Triple(db.audit) \in AllowedTriples
    /\ Triple(sess.audit) \in AllowedTriples

\* the run failed in the scoring step, after progress 75 had been stored
C32_Witness ==
    /\ pc = "returned"
    /\ failed_step = 4
    /\ Triple(db.audit) = <<"failed", 0, NULL>>
    /\ status_log[Len(status_log) - 1] = "scoring"

\* C33: in every persisted state, status scoring, generating_narrative or
\* completed implies that every join row of the run has its engagement
\* metrics set; status generating_narrative or completed implies that the
\* health score is set; and as long as scoring has not finished, a failed
\* run included, the health score is unset.
C33_StatusImpliesEarlierResults ==
    /\ db.audit.status \in {"scoring", "generating_narrative", "completed"} =>
          \A i \in JoinsOfAudit : db.joins[i].engagement
    /\ db.audit.status \in {"generating_narrative", "completed"} =>
          db.audit.health_score # None
    /\ 4 \notin work_returned => db.audit.health_score = None

\* the run failed in the scoring step with two influencers linked and
\* analysed
C33_Witness ==
    /\ pc = "returned"
    /\ db.audit.status = "failed"
    /\ failed_step = 4 /\ 4 \in work_started
    /\ Cardinality(JoinsOfAudit) = 2
    /\ \A i \in JoinsOfAudit : db.joins[i].engagement
    /\ db.audit.health_score = None

\* C34: within a run, once the stored status is completed nothing is
\* written any more (in particular it is never changed to failed, and no
\* exception is raised), and once it is failed neither the stored rows nor
\* the session change again.
C34_CompletedAndFailedAbsorb ==
    /\ [](db.audit.status = "failed" => (pc = "returned" /\ ~ENABLED Next))
    /\ [][/\ db.audit.status = "completed" =>
                 /\ db' = db /\ sess' = sess
                 /\ exc' = NULL /\ pc' \notin {"handler", "raised"}
          /\ db.audit.status = "failed" => (db' = db /\ sess' = sess)]_vars

\* the loop has just stored completed and has yet to end
C34_Witness ==
    /\ db.audit.status = "completed"
    /\ pc = "work"
    /\ PIPELINE_STEPS[step].status = "completed"

\* the handles of the influencers the join rows of the run link, as the
\* session sees them
LinkedHandlesOf(s) ==
    {HandleOf(s, s.joins[i]) : i \in Range(AuditInfluencers(s.joins, PipelineAudit))}

\* C35: in one run on a fresh orchestrator, whenever the scoring step is
\* executed the cache holds a profile for every influencer linked to the
\* run; once scoring has returned, every join row of the run has its score
\* fields and n(n-1)/2 overlap estimates are stored for n linked
\* influencers.
C35_ScoringFindsEveryProfile ==
    /\ (pc = "work" /\ PIPELINE_STEPS[step].status = "scoring") =>
          /\ LinkedHandlesOf(sess) \subseteq profiles
          /\ Cardinality(LinkedHandlesOf(sess)) =
                Len(AuditInfluencers(sess.joins, PipelineAudit))
    /\ 4 \in work_returned =>
          /\ \A i \in JoinsOfAudit : db.joins[i].engagement /\ db.joins[i].scored
          /\ 2 * Len(db.overlaps) =
                Cardinality(JoinsOfAudit) * (Cardinality(JoinsOfAudit) - 1)
          /\ db.audit.health_score = Some(CalculateHealthScore(BundlesOfAnalyzed))
          /\ Len(BundlesOfAnalyzed) = Cardinality(JoinsOfAudit)

\* scoring has returned for a run that linked two influencers, one of them
\* stored by an earlier audit
C35_Witness ==
    /\ 4 \in work_returned
    /\ Cardinality(JoinsOfAudit) = 2
    /\ \A i \in JoinsOfAudit : db.joins[i].scored
    /\ \E i \in JoinsOfAudit : db.joins[i].influencer_id[1] = "earlier"
    /\ Len(db.overlaps) = 1

\* all three discovery methods raise: the aggregator returns no candidate
\* and lists the three sources as failed
AllMethodsFail ==
    \A outs \in [1..Len(SourceNames) -> {o \in RawOutcomesOver({}, 0) : ~o.ok}] :
        LET r == DiscoverInfluencersLive(brand_handle, brand_bio, outs)
        IN  r.influencers = <<>> /\ r.sources_failed = SourceNames

\* C36: if all three discovery methods fail, or discovery returns no
\* candidate, the run is not marked failed for it: nothing but a storage
\* call raises in the steps that follow, and a run that ends without an
\* exception has gone through all six statuses and is completed with
\* progress 100, health score 0.0, no join row and no overlap estimate.
C36_EmptyDiscoveryCompletes ==
    /\ AllMethodsFail
    /\ (2 \in work_started /\ pc # "work" /\ discovery = <<>>) =>
          /\ exc \in {NULL, StorageError}
          /\ JoinsOfAudit = {} /\ db.overlaps = <<>>
          /\ (pc = "returned" /\ exc = NULL) =>
                /\ status_log = StepStatuses
                /\ Triple(db.audit) = <<"completed", 100, "Audit complete">>
                /\ db.audit.health_score = Some(0)
                /\ db.audit.error_message = NULL

\* discovery found nobody and the run has returned completed
C36_Witness ==
    /\ pc = "returned" /\ exc = NULL
    /\ 2 \in work_returned /\ discovery = <<>>
    /\ db.audit.status = "completed"
    /\ db.audit.health_score = Some(0)
    /\ Len(db.influencers) > 0

\* C37: for every audit there is at most one join row per influencer and
\* at most one overlap estimate per unordered pair of influencers, also
\* when run_audit is called more than once for the same audit id.
C37_NoDuplicateRows ==
    /\ \A i, j \in JoinsOfAudit :
          db.joins[i].influencer_id = db.joins[j].influencer_id => i = j
    /\ \A k, l \in 1..Len(db.overlaps) :
          (db.overlaps[k].audit_id = db.overlaps[l].audit_id
             /\ Ends(db.overlaps[k]) = Ends(db.overlaps[l])) => k = l

\* ----------------------------------------------------- worker: the claims
WorkerEnded == wpc \in {"returned", "raised"}

\* C39: run_audit_background never lets an exception through to its
\* caller and disposes its engine exactly once on every path: it has not
\* been disposed while the session is open, it has been disposed once when
\* the worker ends, whether run_audit returned with the run completed or
\* failed, or raised; and once run_audit has ended the worker goes on to
\* its own end.
C39_WorkerContainsAndDisposes ==
    /\ wpc # "raised"
    /\ disposals = (IF WorkerEnded THEN 1 ELSE 0)
    /\ WorkerEnded => RunEnded
    /\ (wpc = "session" /\ RunEnded) => ENABLED SessionExit
    /\ wpc = "except" => ENABLED WorkerExcept
    /\ wpc \in {"finally", "finally_raising"} => ENABLED WorkerFinally

\* run_audit itself raised (the audit row is missing), and the worker
\* returned after disposing the engine
C39_Witness ==
    /\ wpc = "returned"
    /\ pc = "raised"
    /\ exc = NotFoundError
    /\ disposals = 1

\* --------------------------------------------- concurrent runs: the claims
\* the handles of the influencers the committed join rows of run r link
LinkedHandles(r) ==
    {InfluencerRow(store.influencers, store.joins[i].influencer_id).instagram_handle :
        i \in {j \in 1..Len(store.joins) : store.joins[j].audit_id = r}}

RunNames(r) == {runs[r].discovery[i].username : i \in 1..Len(runs[r].discovery)}

StoredWithHandle(h) == {i \in 1..Len(store.influencers) : store.influencers[i].instagram_handle = h}

\* C17: a run that discovers the same candidates after an earlier run has
\* committed links the same set of influencers as that run and adds no
\* second influencer record for any username.
C17_RerunLinksSameInfluencers ==
    \A r \in Runs :
        (/\ OtherRun(r) \in runs[r].began_after
         /\ runs[r].discovery = runs[OtherRun(r)].discovery
         /\ runs[r].pc \in {"done", "failed"}) =>
            /\ runs[r].pc = "done"
            /\ LinkedHandles(r) = LinkedHandles(OtherRun(r))
            /\ {store.joins[i].influencer_id :
                    i \in {j \in 1..Len(store.joins) : store.joins[j].audit_id = r}}
               = {store.joins[i].influencer_id :
                    i \in {j \in 1..Len(store.joins) : store.joins[j].audit_id = OtherRun(r)}}
            /\ \A h \in RunNames(r) : Cardinality(StoredWithHandle(h)) = 1

\* the second run found two candidates, one stored before the first run
\* and one the first run stored
C17_Witness ==
    /\ runs["a2"].pc = "done" /\ "a1" \in runs["a2"].began_after
    /\ runs["a2"].discovery = runs["a1"].discovery
    /\ Len(runs["a2"].discovery) = 2
    /\ Len(store.influencers) = 2
    /\ store.influencers[1].id[1] = "earlier"
    /\ Len(store.joins) = 4

\* C18: when two runs discover the same username not stored before, at the
\* same time, neither run fails because of the other's writes, and once
\* both have ended one influencer record of that username is stored and
\* both runs are linked to it.
C18_ConcurrentRunsShareInfluencer ==
    /\ \A r \in Runs : runs[r].pc # "failed"
    /\ (\A r \in Runs : runs[r].pc = "done") =>
          \A h \in RunNames("a1") \cap RunNames("a2") :
              /\ Cardinality(StoredWithHandle(h)) = 1
              /\ h \in LinkedHandles("a1") \cap LinkedHandles("a2")

\* ------------------------------------------------- hashtags: the claims
RECURSIVE SortedSeq(_)
\* the numbers of a set, ascending
SortedSeq(S) ==
    IF S = {} THEN <<>>
    ELSE LET m == CHOOSE x \in S : \A y \in S : x <= y
         IN  <<m>> \o SortedSeq(S \ {m})

\* the segments of a handle between its "." and "_" characters
Segments(handle) ==
    LET cuts == SortedSeq({0, Len(handle) + 1}
                          \cup {i \in 1..Len(handle) : handle[i] \in {".", "_"}})
    IN  [k \in 1..(Len(cuts) - 1) |-> SubSeq(handle, cuts[k] + 1, cuts[k + 1] - 1)]

\* the #word tokens of a bio: after each "#" that a word character follows,
\* the longest run of word characters
Tokens(bio) ==
    LET starts == SortedSeq({i \in 1..(Len(bio) - 1) :
                                bio[i] = "#" /\ bio[i + 1] \in WordChars})
        end(i) == CHOOSE j \in (i + 1)..Len(bio) :
                      /\ \A k \in (i + 1)..j : bio[k] \in WordChars
                      /\ j = Len(bio) \/ bio[j + 1] \notin WordChars
    IN  [k \in 1..Len(starts) |-> SubSeq(bio, starts[k] + 1, end(starts[k]))]

\* a text with "A" and "T" replaced by "a" and "t"
LowerCased(text) ==
    [i \in 1..Len(text) |-> IF text[i] = "A" THEN "a"
                            ELSE IF text[i] = "T" THEN "t" ELSE text[i]]

\* the entries of l in order, each kept at its first position only
FirstSeenOrder(l) ==
    LET keep == {i \in 1..Len(l) : \A j \in 1..(i - 1) : l[j] # l[i]}
        at == SortedSeq(keep)
    IN  [k \in 1..Len(at) |-> l[at[k]]]

\* the long segments of the handle, then the tokens of the bio, lower-cased
HashtagSources(handle, bio) ==
    LET segs == Segments(handle)
        long == SortedSeq({i \in 1..Len(segs) : Len(segs[i]) > 2})
        toks == IF bio = NoBio THEN <<>> ELSE Tokens(bio)
    IN  [k \in 1..Len(long) |-> LowerCased(segs[long[k]])]
        \o [k \in 1..Len(toks) |-> LowerCased(toks[k])]

\* C14: the hashtag extraction returns at most 5 entries and no entry twice.
C14_AtMostFiveNoRepeat ==
    tag_pc = "returned" =>
        /\ Len(tag_result) <= 5
        /\ \A i, j \in 1..Len(tag_result) : i # j => tag_result[i] # tag_result[j]

\* the handle and the bio together hold more than 5 distinct hashtags, one
\* of them more than once
C14_Witness ==
    /\ tag_pc = "returned"
    /\ Len(tag_result) = 5
    /\ Cardinality(Range(HashtagSources(tag_handle, tag_bio))) > 5
    /\ Len(HashtagSources(tag_handle, tag_bio)) >
          Cardinality(Range(HashtagSources(tag_handle, tag_bio)))

\* C15: the hashtag extraction returns exactly the first 5 entries of the
\* first-seen-order list of the lower-cased handle segments longer than 2
\* followed by the lower-cased #word tokens of the bio; a handle segment of
\* length 2 or less is never taken from the handle, and an absent bio
\* contributes nothing.
C15_ExtractionIsExact ==
    tag_pc = "returned" =>
        LET all == FirstSeenOrder(HashtagSources(tag_handle, tag_bio))
            toks == IF tag_bio = NoBio THEN <<>> ELSE Tokens(tag_bio)
        IN  /\ tag_result = SubSeq(all, 1, IF Len(all) < 5 THEN Len(all) ELSE 5)
            /\ \A i \in 1..Len(tag_result) :
                  Len(tag_result[i]) <= 2 =>
                      \E k \in 1..Len(toks) : LowerCased(toks[k]) = tag_result[i]
            /\ tag_bio = NoBio =>
                  Range(tag_result) \subseteq
                      {LowerCased(seg) : seg \in Range(Segments(tag_handle))}

\* a handle with a short segment, a long one in upper case that the bio
\* repeats in lower case, and a bio that adds a new token
C15_Witness ==
    /\ tag_pc = "returned"
    /\ \E seg \in Range(Segments(tag_handle)) : Len(seg) \in 1..2
    /\ \E seg \in Range(Segments(tag_handle)) : Len(seg) > 2 /\ LowerCased(seg) # seg
    /\ tag_bio # NoBio
    /\ Len(tag_result) > 1
    /\ Len(tag_result) < Len(HashtagSources(tag_handle, tag_bio))

\* C13: when the hashtag extraction yields nothing, the hashtag method makes
\* no query, contributes no candidate, and is recorded in sources_succeeded
\* with no error.
C13_EmptyExtractionSucceeds ==
    (dpc = "returned" /\ ~is_mock_mode
        /\ HashtagSources(HandleChars(brand_handle), brand_bio) = <<>>) =>
            /\ queried = <<>>
            /\ \A c \in Range(result.influencers) : c.discovery_source # "hashtag_search"
            /\ "hashtag_search" \in Range(result.sources_succeeded)
            /\ "hashtag_search" \notin Range(result.sources_failed)
            /\ \A e \in Range(result.errors) : e[1] # "hashtag_search"

\* the extraction yields nothing while the provider would have raised or
\* yielded items had it been queried, and an earlier method raised
C13_Witness ==
    /\ dpc = "returned" /\ ~is_mock_mode
    /\ HashtagSources(HandleChars(brand_handle), brand_bio) = <<>>
    /\ result.sources_succeeded = <<"related_profiles", "hashtag_search">>
    /\ Len(result.errors) = 1

\* --------------------------------------------------- scoring: the claims
\* the scoring function that was called is fn
Called(fn) == score_fn = fn

\* the posts of the profile given as first argument that have a timestamp
Dated(profile) == SelectSeq(profile.recent_posts, LAMBDA p : p.timestamp # None)

\* the same profile without the posts that have no timestamp
DatedOnly(profile) == [profile EXCEPT !.recent_posts = Dated(profile)]

\* C24: the fraud score, the content quality score and the audience quality
\* score returned lie between 0 and 1, whatever the counts (negative, zero
\* or None), the engagement rate and the fraud score given.
C24_ScoresWithinUnit ==
    /\ Called("calculate_fraud_score") => score_result.fraud_score \in 0..Unit
    /\ Called("calculate_content_quality") => score_result.content_quality_score \in 0..Unit
    /\ Called("calculate_audience_quality") => score_result.audience_quality_score \in 0..Unit

C24_Witness ==
    /\ Called("calculate_audience_quality")
    /\ score_args[1].followers_count = Some(-50)
    /\ score_args[2] = Unit
    /\ score_args[3] = -Unit
    /\ score_result.audience_quality_score = Unit

\* C25: the health score returned lies between 0 and 100 for every list of
\* bundles, with keys missing or values outside their range.
C25_HealthWithinHundred ==
    Called("calculate_health_score") => score_result \in 0..Whole(100)

\* C26: the overlap percentage returned lies between 5 and 45 and the
\* sample size between 100 and 10000, for profiles without posts, without
\* hashtags or with a follower count of zero or None as well.
C26_OverlapWithinRange ==
    Called("estimate_audience_overlap") =>
        /\ score_result.overlap_percentage \in Whole(5)..Whole(45)
        /\ score_result.sample_size \in 100..10000

C26_Witness ==
    /\ Called("estimate_audience_overlap")
    /\ score_args[1].recent_posts = <<>>
    /\ score_args[1].followers_count = None
    /\ score_args[2].followers_count = Some(60000)
    /\ score_result.overlap_percentage = Whole(5)
    /\ score_result.sample_size = 100

\* C27: the estimated reach and the estimated CPM returned are not
\* negative, whatever the follower count, engagement rate and content
\* quality given, and both are zero for zero followers.
C27_ReachAndCpmNotNegative ==
    Called("estimate_reach_and_cpm") =>
        /\ score_result.estimated_reach >= 0
        /\ score_result.estimated_cpm >= 0
        /\ score_args[1] = 0 =>
              score_result.estimated_reach = 0 /\ score_result.estimated_cpm = 0

\* C28: for a profile without posts, or with a follower count of zero or
\* None, the engagement rate, the average likes and the average comments
\* returned are all zero.
C28_NoEngagementWithoutData ==
    Called("calculate_engagement_metrics") =>
        LET profile == score_args[1]
        IN  (profile.recent_posts = <<>> \/ profile.followers_count \in {None, Some(0)}) =>
                /\ score_result.engagement_rate = 0
                /\ score_result.avg_likes = 0
                /\ score_result.avg_comments = 0

C28_Witness ==
    /\ Called("calculate_engagement_metrics")
    /\ score_args[1].followers_count = None
    /\ score_args[1].following_count = Some(100)
    /\ Len(score_args[1].recent_posts) = 2
    /\ score_args[1].recent_posts[1].likes_count = 300
    /\ score_result.engagement_rate = 0
    /\ score_result.avg_likes = 0

\* a bundle with no fraud, full content and audience quality and an
\* engagement rate of at least 0.10
PerfectBundle(scores) ==
    /\ DOMAIN scores = {"fraud_score", "content_quality_score", "audience_quality_score",
                        "engagement_rate"}
    /\ scores.fraud_score = 0
    /\ scores.content_quality_score = Unit
    /\ scores.audience_quality_score = Unit
    /\ scores.engagement_rate >= 1000

\* C29: the health score of the empty list is 0, and the health score of a
\* list of one perfect bundle is 100, whatever its engagement rate from 0.10
\* upwards.
C29_HealthOfEmptyAndPerfect ==
    Called("calculate_health_score") =>
        /\ score_args[1] = <<>> => score_result = 0
        /\ (Len(score_args[1]) = 1 /\ PerfectBundle(score_args[1][1])) =>
              score_result = Whole(100)

C29_Witness ==
    /\ Called("calculate_health_score")
    /\ Len(score_args[1]) = 1
    /\ PerfectBundle(score_args[1][1])
    /\ score_args[1][1].engagement_rate = 5000
    /\ score_result = Whole(100)

\* C30 as stated: whenever fewer than two posts of the profile have a
\* timestamp, the posting frequency signal of the content quality is 0.3.
C30_CadenceOfUndatedIsDefault ==
    (Called("calculate_content_quality") /\ Len(Dated(score_args[1])) < 2) =>
        score_result.content_analysis.posting_frequency = 3000

\* C30, amended: the posting frequency signal of the fraud score and that
\* of the content quality are those of the profile without its posts that
\* have no timestamp, as long as three posts (fraud), one post (content)
\* remain in the list; with fewer than three timestamps the signal of the
\* fraud score is 0.3, and with fewer than two the signal of the content
\* quality is 0.3 for a profile that has posts and 0 for one that has none.
C30_AbsentTimestampsAreMissingData ==
    /\ Called("calculate_fraud_score") =>
          LET profile == score_args[1]
              signal == score_result.fraud_indicators.posting_frequency
          IN  /\ Len(Dated(profile)) < 3 => signal = 3000
              /\ Len(Dated(profile)) >= 3 =>
                    signal = CalculateFraudScore(DatedOnly(profile), score_args[2],
                                 score_args[3], score_args[4]).fraud_indicators.posting_frequency
    /\ Called("calculate_content_quality") =>
          LET profile == score_args[1]
              signal == score_result.content_analysis.posting_frequency
          IN  /\ (Len(Dated(profile)) < 2 /\ profile.recent_posts # <<>>) => signal = 3000
              /\ profile.recent_posts = <<>> => signal = 0
              /\ Len(Dated(profile)) >= 2 =>
                    signal = CalculateContentQuality(DatedOnly(profile))
                                 .content_analysis.posting_frequency

C30_Witness ==
    /\ Called("calculate_fraud_score")
    /\ Len(score_args[1].recent_posts) = 3
    /\ Len(Dated(score_args[1])) = 2
    /\ score_args[1].recent_posts[2].timestamp = None
    /\ score_result.fraud_indicators.posting_frequency = 3000

====
